---- MODULE Spec2Model ----
(***************************************************************************)
(* ts::unique_ptr (include/ts_memory.h) and ts::shared_ptr                 *)
(* (include/impl/ts_shared_ptr.h): the locking and ownership protocol of   *)
(* the two thread-safe smart pointers, one step per lock call, per         *)
(* unsynchronised read of a handle field and per critical section.         *)
(***************************************************************************)
EXTENDS Integers, FiniteSets, Sequences, TLC

\* ------------------------------------------------------------------ bounds
MaxOps == 2          \* operations a thread starts before it goes out of scope
NumPayloads == 3     \* payload objects that can ever be constructed
NumMutexes == 4      \* addresses a std::make_shared<t_mutex>() can return
ArrLen == 2          \* elements of the array behind the indexed guard
MaxCalls == 4        \* calls the thread of an instrumented-mutex fixture makes

Threads == {"t1", "t2"}
UH == {"a", "b"}                         \* the ts::unique_ptr instances
SH == {"r", "x1", "y1", "x2", "y2"}      \* the ts::shared_ptr instances
NoH == "-"
Null == 0                                \* nullptr
Payloads == 1..NumPayloads
SMutexes == 1..NumMutexes

\* The mutex a unique_ptr owns is a member (m_mtx): its identity is the handle's.
UMtx(h) == IF h = "a" THEN NumMutexes + 1 ELSE NumMutexes + 2
Mutexes == 1..(NumMutexes + 2)

\* The instances a thread created itself; "r" belongs to the main thread.
Owner(h) == CASE h \in {"x1", "y1"} -> "t1"
              [] h \in {"x2", "y2"} -> "t2"
              [] OTHER -> "main"

VARIABLES
    mode,       \* which test fixture the run is: "unique", "shared", or a const-alias
                \* fixture "shared_c", "shared_rw", "counting"
    m_value,    \* unique_ptr::m_value: the payload each unique handle owns
    m_mtx,      \* shared_ptr::m_mtx: the mutex each shared handle references
    m_data,     \* shared_ptr::m_data: the payload each shared handle references
    live,       \* the shared handles that are constructed and not destroyed
    locked,     \* per mutex, the threads that own it in exclusive mode
    use_count,  \* per payload, the owner count of its std::shared_ptr block
    deleted,    \* per payload, how often its deleter has run
    made,       \* the payloads constructed so far
    arr,        \* the elements of the array payload
    pc,         \* each thread's position
    op,         \* each thread's running operation and its locals
    nops,       \* operations each thread has started
    hist,       \* history: what the running operations have observed
    rlocked,    \* per mutex, the threads that own it in shared (reader) mode
    map,        \* the entries of the std::map payload
    queue,      \* the elements of the std::queue payload
    done        \* the test's std::atomic_bool done

vars == <<mode, m_value, m_mtx, m_data, live, locked, use_count, deleted, made,
          arr, pc, op, nops, hist, rlocked, map, queue, done>>

\* A lockable handed to std::lock_guard / std::scoped_lock: a mutex object
\* (h = NoH) or a ts::shared_ptr, whose lock()/unlock() read m_mtx on each call.
MtxL(m) == [h |-> NoH, m |-> m]
HandleL(h) == [h |-> h, m |-> Null]
NoL == MtxL(Null)

NoOp == [kind |-> "none", dst |-> NoH, src |-> NoH, ptr |-> Null, np |-> Null,
         tmp |-> Null, newm |-> Null, l1 |-> NoL, l2 |-> NoL, first |-> 1,
         r |-> Null, idx |-> 0, val |-> 0, snap |-> <<>>]

\* The member functions of a mutex (dummy_shared_mutex counts the calls of each).
CallNames == {"lock", "unlock", "try_lock", "lock_shared", "unlock_shared",
              "try_lock_shared"}

NoHist == [copied |-> [h \in SH |-> NoH], moved |-> {},
           incs |-> [j \in 0..(ArrLen - 1) |-> 0],
           decs |-> [j \in 0..(ArrLen - 1) |-> 0], released |-> {},
           plan |-> [t \in Threads |-> [k |-> "none", d |-> NoH, s |-> NoH]],
           calls |-> [c \in CallNames |-> 0],
           ops |-> [o \in {"reads", "writes", "copies"} |-> 0]]

\* ------------------------------------------------------- the mutex (std::mutex)
\* std::mutex::lock() returns only once no thread owns the mutex.
CanLockOpen(m) == TRUE
CanLock(m) == locked[m] = {} /\ rlocked[m] = {}
\* lock_shared() returns only once no thread owns the mutex in exclusive mode.
CanLockSharedOpen(m) == TRUE
CanLockShared(m) == locked[m] = {}

Acquire(m, t) == [locked EXCEPT ![m] = @ \cup {t}]
Release(m, t) == [locked EXCEPT ![m] = @ \ {t}]
Held(t) == {m \in Mutexes : t \in locked[m] \/ t \in rlocked[m]}

\* Owners of a mutex block: the handles' m_mtx and the threads' local copies
\* (tmp_ref_to_mtx, new_mutex).
MtxRefs(m) ==
    Cardinality({h \in SH : live[h] /\ m_mtx[h] = m})
    + Cardinality({t \in Threads : op[t].tmp = m})
    + Cardinality({t \in Threads : op[t].newm = m})

\* std::make_shared<t_mutex>(): an address no live mutex has.
UsedMutexes ==
    {m_mtx[h] : h \in SH} \cup {op[t].tmp : t \in Threads}
    \cup {op[t].newm : t \in Threads} \cup {op[t].r : t \in Threads}
    \cup {m \in SMutexes : locked[m] # {}}
FreeMutexes == SMutexes \ UsedMutexes
NewMutexSame == CHOOSE m \in SMutexes : \A n \in SMutexes : m >= n
NewMutex == CHOOSE m \in FreeMutexes : \A n \in FreeMutexes : m <= n

\* new T: an object that was never constructed before.
FreshPayloads == Payloads \ made
NewPayload == CHOOSE p \in FreshPayloads : \A q \in FreshPayloads : p <= q

\* ------------------------------------------------ std::shared_ptr / unique_ptr
\* Dropping one owner of payload p: the deleter runs when the count reaches 0.
DropRef(uc, p) == IF p = Null THEN uc ELSE [uc EXCEPT ![p] = @ - 1]
DropDelAlways(del, uc, p) == IF p # Null THEN [del EXCEPT ![p] = @ + 1] ELSE del
DropDel(del, uc, p) ==
    IF p # Null /\ uc[p] = 1 THEN [del EXCEPT ![p] = @ + 1] ELSE del
\* Copying a std::shared_ptr adds one owner.
AddRefNone(uc, p) == uc
AddRef(uc, p) == IF p = Null THEN uc ELSE [uc EXCEPT ![p] = @ + 1]

\* std::unique_ptr::reset / destructor: the deleter runs on the old payload.
DeleteNone(del, p) == del
Delete(del, p) == IF p = Null THEN del ELSE [del EXCEPT ![p] = @ + 1]

Finish(t) ==
    /\ pc' = [pc EXCEPT ![t] = "idle"]
    /\ op' = [op EXCEPT ![t] = NoOp]

\* The instrumented mutex keeps its counters in plain static ints and never
\* blocks: its fixtures run every call on one thread.
Runs(t) == mode = "counting" => t = "t1"
Budget == IF mode = "counting" THEN MaxCalls ELSE MaxOps
Ready(t) == pc[t] = "idle" /\ nops[t] < Budget /\ Runs(t)

Begin(t, o, p) ==
    /\ Ready(t)
    /\ pc' = [pc EXCEPT ![t] = p]
    /\ op' = [op EXCEPT ![t] = o]
    /\ nops' = [nops EXCEPT ![t] = @ + 1]

\* A call that dereferences a null m_mtx (*(m_mtx.get()) of a moved-from
\* handle) is undefined: the thread is lost.
Crash(t, o) ==
    /\ pc' = [pc EXCEPT ![t] = "crashed"]
    /\ nops' = [nops EXCEPT ![t] = @ + 1]
    /\ op' = [op EXCEPT ![t] = o]

\* impl::config::s_enable_exceptions; if (nullptr == m_ptr) throw null_ptr_exception.
s_enable_exceptions == TRUE
ThrowsNever(ptr) == FALSE
Throws(ptr) == s_enable_exceptions /\ ptr = Null

\* Stack unwinding destroys the temporary guard: its m_lock unlocks.
UnwindLeaks(lk, m, t) == lk
Unwind(lk, m, t) == [lk EXCEPT ![m] = @ \ {t}]

\* The member functions the container fixtures call through operator->: the
\* guard lives until the call has returned.
Members == {"emplace", "push", "empty"}

\* The caller catches the null_ptr_exception (EXPECT_THROW).
catch(t) ==
    /\ pc[t] = "thrown"
    /\ Finish(t)
    /\ UNCHANGED <<mode, m_value, m_mtx, m_data, live, locked, use_count, deleted,
                   made, arr, nops, hist, rlocked, map, queue, done>>

\* ------------------------------------------------ mutex type and pointee type
\* The fixtures with ts::shared_ptr: T with std::mutex ("shared"), T and const T
\* with std::mutex ("shared_c"), with std::shared_mutex ("shared_rw") and with
\* the counting dummy_shared_mutex ("counting").
SharedModes == {"shared", "shared_c", "shared_rw", "counting"}
\* The fixtures whose threads call lock() / unlock() themselves.
LockModes == {"shared", "shared_rw"}
\* In the fixtures with const aliases, y1 and y2 are ts::shared_ptr<const T, M>.
ConstHandles == {"y1", "y2"}
is_read_only(h) == mode \in {"shared_c", "shared_rw", "counting"} /\ h \in ConstHandles
\* concept is_shared_lockable<t_mutex>.
is_shared_lockable == mode \in {"shared_rw", "counting"}

t_write_lock_shared == "shared_lock"
t_write_lock == "unique_lock"
t_read_lock_shared == "shared_lock"
t_read_lock == IF is_shared_lockable THEN "shared_lock" ELSE "unique_lock"
t_proxy_locker_ret_write(h) == t_write_lock
t_proxy_locker_ret(h) == IF is_read_only(h) THEN t_read_lock ELSE t_write_lock
t_proxy_locker_for_subscript_ret(h) ==
    IF is_read_only(h) THEN t_read_lock ELSE t_write_lock

\* The lock type of the guard a running access has built; a ts::unique_ptr guard
\* holds a t_unique_lock.
GuardLock(o) ==
    IF o.dst \in UH THEN "unique_lock"
    ELSE IF o.kind = "s_arrow" THEN t_proxy_locker_ret(o.dst)
    ELSE t_proxy_locker_for_subscript_ret(o.dst)

\* The instrumented mutex counts each call.
Count(h, c) == IF mode = "counting" THEN [h EXCEPT !.calls[c] = @ + 1] ELSE h
\* The instrumented test's bookkeeping of what it has run.
Note(h, o) == IF mode = "counting" THEN [h EXCEPT !.ops[o] = @ + 1] ELSE h
Access(h) == IF is_read_only(h) THEN "reads" ELSE "writes"

\* The constructor of a guard of lock type k on mutex m, and its destructor.
LockAs(k, m, t) ==
    IF k = "shared_lock"
    THEN /\ CanLockShared(m)
         /\ rlocked' = [rlocked EXCEPT ![m] = @ \cup {t}]
         /\ locked' = locked
         /\ hist' = Count(hist, "lock_shared")
    ELSE /\ CanLock(m)
         /\ locked' = Acquire(m, t)
         /\ rlocked' = rlocked
         /\ hist' = Count(hist, "lock")
UnlockAs(k, m, t) ==
    IF k = "shared_lock"
    THEN /\ rlocked' = [rlocked EXCEPT ![m] = @ \ {t}]
         /\ locked' = locked
         /\ hist' = Count(hist, "unlock_shared")
    ELSE /\ locked' = Release(m, t)
         /\ rlocked' = rlocked
         /\ hist' = Count(hist, "unlock")
\* The destructor of the guard when an exception unwinds the access.
UnwindAs(k, m, t) ==
    IF k = "shared_lock"
    THEN /\ rlocked' = Unwind(rlocked, m, t)
         /\ locked' = locked
         /\ hist' = Count(hist, "unlock_shared")
    ELSE /\ locked' = Unwind(locked, m, t)
         /\ rlocked' = rlocked
         /\ hist' = Count(hist, "unlock")

\* ------------------------------------------- std::lock_guard / std::scoped_lock
Resolve(l) == IF l.h = NoH THEN l.m ELSE m_mtx[l.h]
Lk(o, i) == IF i = 1 THEN o.l1 ELSE o.l2
Other(i) == 3 - i
\* Where a call of l.lock() / l.try_lock() starts: a ts::shared_ptr first reads
\* its m_mtx (mutex_ref()), a mutex is locked directly.
LockPc(l) == IF l.h = NoH THEN "sl_lock" ELSE "sl_res"
TryPc(l) == IF l.h = NoH THEN "sl_try" ELSE "sl_tres"

\* unlock() of a mutex the caller does not own is undefined: the build either
\* clears the owner (a plain pthread mutex) or leaves the mutex alone.
Unlock(lk, m, t, ub) ==
    IF t \in lk[m] THEN [lk EXCEPT ![m] = @ \ {t}]
    ELSE IF ub = "clear" THEN [lk EXCEPT ![m] = {}] ELSE lk
UbOutcomes == {"clear", "ignore"}

\* lock() of a mutex whose last owner is gone (a stale mutex_ref()) is undefined:
\* the freed memory still works as a mutex, or the thread faults.
Dead(m) == m \in SMutexes /\ MtxRefs(m) = 0
DeadOutcomes == {"works", "fault"}

\* std::lock gives up what it holds when try_lock() fails, instead of blocking.
BackOffNever == FALSE
BackOff == TRUE

\* std::lock(l1, l2), as libstdc++ and libc++ run it: lock one, try_lock the
\* other, on failure unlock and start over with the one that failed.
\* mutex_ref() of the lockable that is locked first.
sl_resolve(t) ==
    /\ pc[t] = "sl_res"
    /\ LET m == Resolve(Lk(op[t], op[t].first)) IN
         IF m = Null
         THEN /\ pc' = [pc EXCEPT ![t] = "crashed"]
              /\ op' = op
         ELSE /\ pc' = [pc EXCEPT ![t] = "sl_lock"]
              /\ op' = [op EXCEPT ![t].r = m]
    /\ UNCHANGED <<mode, m_value, m_mtx, m_data, live, locked, use_count, deleted,
                   made, arr, nops, hist>>
    /\ UNCHANGED <<rlocked, map, queue, done>>

\* The blocking lock() of the first lockable.
sl_lock(t) ==
    /\ pc[t] = "sl_lock"
    /\ \E ub \in DeadOutcomes :
         IF Dead(op[t].r) /\ ub = "fault"
         THEN /\ pc' = [pc EXCEPT ![t] = "crashed"]
              /\ UNCHANGED <<op, locked>>
         ELSE /\ CanLock(op[t].r)
              /\ locked' = Acquire(op[t].r, t)
              /\ LET o == Lk(op[t], Other(op[t].first)) IN
                   /\ pc' = [pc EXCEPT ![t] = TryPc(o)]
                   /\ op' = [op EXCEPT ![t].r = o.m]
    /\ UNCHANGED <<mode, m_value, m_mtx, m_data, live, use_count, deleted, made,
                   arr, nops, hist>>
    /\ UNCHANGED <<rlocked, map, queue, done>>

\* mutex_ref() of the lockable that is tried second.
sl_try_resolve(t) ==
    /\ pc[t] = "sl_tres"
    /\ LET m == Resolve(Lk(op[t], Other(op[t].first))) IN
         IF m = Null
         THEN /\ pc' = [pc EXCEPT ![t] = "crashed"]
              /\ op' = op
         ELSE /\ pc' = [pc EXCEPT ![t] = "sl_try"]
              /\ op' = [op EXCEPT ![t].r = m]
    /\ UNCHANGED <<mode, m_value, m_mtx, m_data, live, locked, use_count, deleted,
                   made, arr, nops, hist>>
    /\ UNCHANGED <<rlocked, map, queue, done>>

\* try_lock() of the second lockable; a failure (also on a mutex the thread
\* itself owns) unlocks the first and makes the second the next first.
sl_try(t) ==
    /\ pc[t] = "sl_try"
    /\ IF CanLock(op[t].r) THEN TRUE ELSE BackOff
    /\ \E ub \in UbOutcomes, dd \in DeadOutcomes :
         IF Dead(op[t].r) /\ dd = "fault"
         THEN /\ pc' = [pc EXCEPT ![t] = "crashed"]
              /\ UNCHANGED <<op, locked>>
         ELSE IF CanLock(op[t].r)
         THEN /\ locked' = Acquire(op[t].r, t)
              /\ pc' = [pc EXCEPT ![t] = "body"]
              /\ op' = [op EXCEPT ![t].r = Null]
         ELSE IF Resolve(Lk(op[t], op[t].first)) = Null
         THEN /\ pc' = [pc EXCEPT ![t] = "crashed"]
              /\ UNCHANGED <<op, locked>>
         ELSE LET nf == Other(op[t].first) IN
              /\ locked' = Unlock(locked, Resolve(Lk(op[t], op[t].first)), t, ub)
              /\ pc' = [pc EXCEPT ![t] = LockPc(Lk(op[t], nf))]
              /\ op' = [op EXCEPT ![t].first = nf, ![t].r = Lk(op[t], nf).m]
    /\ UNCHANGED <<mode, m_value, m_mtx, m_data, live, use_count, deleted, made,
                   arr, nops, hist>>
    /\ UNCHANGED <<rlocked, map, queue, done>>

\* ~scoped_lock(): unlock() of both lockables, then the locals go out of scope.
\* unlock() of a handle whose m_mtx is null by now dereferences a null pointer:
\* the thread is lost.
sl_unlock(t) ==
    /\ pc[t] = "sl_unlock"
    /\ IF Resolve(op[t].l1) = Null \/ Resolve(op[t].l2) = Null
       THEN /\ pc' = [pc EXCEPT ![t] = "crashed"]
            /\ UNCHANGED <<op, locked>>
       ELSE /\ \E ub \in UbOutcomes :
                 locked' = Unlock(Unlock(locked, Resolve(op[t].l1), t, ub),
                                  Resolve(op[t].l2), t, ub)
            /\ Finish(t)
    /\ UNCHANGED <<mode, m_value, m_mtx, m_data, live, use_count, deleted, made,
                   arr, nops, hist>>
    /\ UNCHANGED <<rlocked, map, queue, done>>

\* --------------------------------------------------------------- ts::unique_ptr
\* p->f(): operator->() is called.
u_arrow(t, h) ==
    /\ mode = "unique"
    /\ Ready(t)
    /\ Begin(t, [NoOp EXCEPT !.kind = "u_arrow", !.dst = h], "u_get")
    /\ UNCHANGED <<mode, m_value, m_mtx, m_data, live, locked, use_count, deleted,
                   made, arr, hist>>
    /\ UNCHANGED <<rlocked, map, queue, done>>

\* proxy_locker(m_mtx, m_value.get()): the argument m_value.get() is evaluated
\* before the constructor runs.
u_get(t) ==
    /\ pc[t] = "u_get"
    /\ pc' = [pc EXCEPT ![t] = "u_plock"]
    /\ op' = [op EXCEPT ![t].ptr = m_value[op[t].dst]]
    /\ UNCHANGED <<mode, m_value, m_mtx, m_data, live, locked, use_count, deleted,
                   made, arr, nops, hist>>
    /\ UNCHANGED <<rlocked, map, queue, done>>

\* proxy_locker::proxy_locker: m_lock(mtx) locks the handle's mutex.
u_proxy_lock(t) ==
    /\ pc[t] = "u_plock"
    /\ CanLock(UMtx(op[t].dst))
    /\ locked' = Acquire(UMtx(op[t].dst), t)
    /\ pc' = [pc EXCEPT ![t] = "u_deref"]
    /\ UNCHANGED <<mode, m_value, m_mtx, m_data, live, use_count, deleted, made,
                   arr, op, nops, hist>>
    /\ UNCHANGED <<rlocked, map, queue, done>>

\* proxy_locker::operator->(): throws on null, else hands out m_ptr; the guard
\* dies at the end of the full expression and unlocks.
u_proxy_deref(t) ==
    /\ pc[t] = "u_deref"
    /\ IF Throws(op[t].ptr)
       THEN /\ locked' = Unwind(locked, UMtx(op[t].dst), t)
            /\ pc' = [pc EXCEPT ![t] = "thrown"]
            /\ op' = op
       ELSE IF op[t].kind \in Members
       THEN /\ locked' = locked
            /\ pc' = [pc EXCEPT ![t] = "member"]
            /\ op' = op
       ELSE /\ locked' = Release(UMtx(op[t].dst), t)
            /\ Finish(t)
    /\ UNCHANGED <<mode, m_value, m_mtx, m_data, live, use_count, deleted, made,
                   arr, nops, hist>>
    /\ UNCHANGED <<rlocked, map, queue, done>>

\* lock(): m_mtx.lock().
u_lock_call(t, h) ==
    /\ mode = "unique"
    /\ Ready(t)
    /\ Begin(t, [NoOp EXCEPT !.kind = "u_lock", !.dst = h], "u_lock")
    /\ UNCHANGED <<mode, m_value, m_mtx, m_data, live, locked, use_count, deleted,
                   made, arr, hist>>
    /\ UNCHANGED <<rlocked, map, queue, done>>

u_lock(t) ==
    /\ pc[t] = "u_lock"
    /\ CanLock(UMtx(op[t].dst))
    /\ locked' = Acquire(UMtx(op[t].dst), t)
    /\ Finish(t)
    /\ UNCHANGED <<mode, m_value, m_mtx, m_data, live, use_count, deleted, made,
                   arr, nops, hist>>
    /\ UNCHANGED <<rlocked, map, queue, done>>

\* unlock(): m_mtx.unlock(), called by the thread that locked.
u_unlock(t, h) ==
    /\ mode = "unique"
    /\ pc[t] = "idle"
    /\ t \in locked[UMtx(h)]
    /\ locked' = Release(UMtx(h), t)
    /\ UNCHANGED <<mode, m_value, m_mtx, m_data, live, use_count, deleted, made,
                   arr, pc, op, nops, hist>>
    /\ UNCHANGED <<rlocked, map, queue, done>>

\* std::mutex::try_lock(): takes the mutex if no thread owns it; the caller keeps
\* the returned flag (1 for true, 0 for false) in a local.
TryLockBlind(m) == TRUE
TryLock(m) == CanLock(m)
Flag(b) == IF b THEN 1 ELSE 0

\* try_lock(): m_mtx.try_lock(); returns at once.
u_try_lock(t, h) ==
    /\ mode = "unique"
    /\ pc[t] = "idle"
    /\ nops[t] < MaxOps
    /\ t \notin locked[UMtx(h)]
    /\ locked' = IF TryLock(UMtx(h)) THEN Acquire(UMtx(h), t) ELSE locked
    /\ op' = [op EXCEPT ![t] = [NoOp EXCEPT !.kind = "try_lock", !.dst = h,
                                             !.val = Flag(TryLock(UMtx(h)))]]
    /\ nops' = [nops EXCEPT ![t] = @ + 1]
    /\ UNCHANGED <<mode, m_value, m_mtx, m_data, live, use_count, deleted, made,
                   arr, pc, hist>>
    /\ UNCHANGED <<rlocked, map, queue, done>>

\* release() and reset(new_pointer) are called.
u_release(t, h) ==
    /\ mode = "unique"
    /\ Ready(t)
    /\ Begin(t, [NoOp EXCEPT !.kind = "u_release", !.dst = h], "u_guard")
    /\ UNCHANGED <<mode, m_value, m_mtx, m_data, live, locked, use_count, deleted,
                   made, arr, hist>>
    /\ UNCHANGED <<rlocked, map, queue, done>>

u_reset(t, h, fresh) ==
    /\ mode = "unique"
    /\ Ready(t)
    /\ fresh => FreshPayloads # {}
    /\ LET np == IF fresh THEN NewPayload ELSE Null IN
         /\ Begin(t, [NoOp EXCEPT !.kind = "u_reset", !.dst = h, !.np = np], "u_guard")
         /\ made' = IF fresh THEN made \cup {np} ELSE made
    /\ UNCHANGED <<mode, m_value, m_mtx, m_data, live, locked, use_count, deleted,
                   arr, hist>>
    /\ UNCHANGED <<rlocked, map, queue, done>>

\* std::lock_guard lock { *this }.
u_guard(t) ==
    /\ pc[t] = "u_guard"
    /\ CanLock(UMtx(op[t].dst))
    /\ locked' = Acquire(UMtx(op[t].dst), t)
    /\ pc' = [pc EXCEPT ![t] = "u_body"]
    /\ UNCHANGED <<mode, m_value, m_mtx, m_data, live, use_count, deleted, made,
                   arr, op, nops, hist>>
    /\ UNCHANGED <<rlocked, map, queue, done>>

\* return m_value.release(); the guard unlocks.
\* std::unique_ptr::release(): the handle's m_value gives its pointer up.
StdReleaseKeeps(v, h) == v
StdRelease(v, h) == [v EXCEPT ![h] = Null]

u_release_body(t) ==
    /\ pc[t] = "u_body"
    /\ op[t].kind = "u_release"
    /\ m_value' = StdRelease(m_value, op[t].dst)
    /\ hist' = [hist EXCEPT !.released = @ \cup ({m_value[op[t].dst]} \ {Null})]
    /\ locked' = Release(UMtx(op[t].dst), t)
    /\ Finish(t)
    /\ UNCHANGED <<mode, m_mtx, m_data, live, use_count, deleted, made, arr, nops>>
    /\ UNCHANGED <<rlocked, map, queue, done>>

\* m_value.reset(new_pointer); the guard unlocks.
\* std::unique_ptr::reset(p): the handle's m_value stores p.
StdResetDrops(v, h, p) == [v EXCEPT ![h] = Null]
StdReset(v, h, p) == [v EXCEPT ![h] = p]

u_reset_body(t) ==
    /\ pc[t] = "u_body"
    /\ op[t].kind = "u_reset"
    /\ m_value' = StdReset(m_value, op[t].dst, op[t].np)
    /\ deleted' = Delete(deleted, m_value[op[t].dst])
    /\ locked' = Release(UMtx(op[t].dst), t)
    /\ Finish(t)
    /\ UNCHANGED <<mode, m_mtx, m_data, live, use_count, made, arr, nops, hist>>
    /\ UNCHANGED <<rlocked, map, queue, done>>

\* dst = std::move(src): std::scoped_lock lock { *this, other }.
u_move(t, d, s) ==
    /\ mode = "unique"
    /\ Ready(t)
    /\ Begin(t, [NoOp EXCEPT !.kind = "u_move", !.dst = d, !.src = s,
                             !.l1 = MtxL(UMtx(d)), !.l2 = MtxL(UMtx(s)),
                             !.r = UMtx(d)], "sl_lock")
    /\ UNCHANGED <<mode, m_value, m_mtx, m_data, live, locked, use_count, deleted,
                   made, arr, hist>>
    /\ UNCHANGED <<rlocked, map, queue, done>>

\* this->m_value = std::move(other.m_value).
\* this->m_value = std::move(other.m_value): the source gives its pointer up.
StdMoveCopies(v, d, s) == [v EXCEPT ![d] = v[s]]
StdMove(v, d, s) == [v EXCEPT ![s] = Null, ![d] = v[s]]

u_move_body(t) ==
    /\ pc[t] = "body"
    /\ op[t].kind = "u_move"
    /\ LET d == op[t].dst
           s == op[t].src IN
         /\ m_value' = StdMove(m_value, d, s)
         /\ deleted' = IF d = s THEN deleted ELSE Delete(deleted, m_value[d])
    /\ pc' = [pc EXCEPT ![t] = "sl_unlock"]
    /\ UNCHANGED <<mode, m_mtx, m_data, live, locked, use_count, made, arr, op,
                   nops, hist>>
    /\ UNCHANGED <<rlocked, map, queue, done>>

\* --------------------------------------------------------------- ts::shared_ptr
\* The handles a thread may name: its own, and the main thread's "r", which the
\* threads only read (copy from, dereference, lock).
Own(t) == {h \in SH : Owner(h) = t}
Readable(t) == {h \in SH : live[h] /\ (Owner(h) = t \/ Owner(h) = "main")}

\* History of the aliasing claim: h stops being "the copy of copied[h]" when
\* either handle is reset, assigned to or destroyed.
Unalias(c, h) == [k \in SH |-> IF k = h \/ c[k] = h THEN NoH ELSE c[k]]

\* ts::shared_ptr<T> d { new T } / ts::shared_ptr<T> d: the wrapper constructor;
\* m_mtx is the default member initialiser std::make_shared<t_mutex>().
s_new(t, d, fresh) ==
    /\ mode = "shared"
    /\ Ready(t)
    /\ d \in Own(t)
    /\ ~live[d]
    /\ FreeMutexes # {}
    /\ fresh => FreshPayloads # {}
    /\ LET np == IF fresh THEN NewPayload ELSE Null IN
         /\ m_mtx' = [m_mtx EXCEPT ![d] = NewMutex]
         /\ m_data' = [m_data EXCEPT ![d] = np]
         /\ use_count' = AddRef(use_count, np)
         /\ made' = IF fresh THEN made \cup {np} ELSE made
    /\ live' = [live EXCEPT ![d] = TRUE]
    /\ nops' = [nops EXCEPT ![t] = @ + 1]
    /\ UNCHANGED <<mode, m_value, locked, deleted, arr, pc, op, hist>>
    /\ UNCHANGED <<rlocked, map, queue, done>>

\* shared_ptr(const shared_ptr&) / shared_ptr(shared_ptr&&) is called: the
\* constructor reads other.m_mtx.get() for its lock_guard.
s_ctor(t, k, d, s) ==
    /\ mode \in SharedModes
    /\ Ready(t)
    /\ d \in Own(t)
    /\ ~live[d]
    /\ s \in Readable(t)
    /\ k = "s_move_ctor" => Owner(s) = t
    /\ is_read_only(s) => is_read_only(d)
    /\ IF m_mtx[s] = Null
       THEN /\ Crash(t, NoOp)
            /\ hist' = hist
       ELSE /\ Begin(t, [NoOp EXCEPT !.kind = k, !.dst = d, !.src = s,
                                     !.r = m_mtx[s]], "lg_lock")
            /\ hist' = Note(hist, "copies")
    /\ UNCHANGED <<mode, m_value, m_mtx, m_data, live, locked, use_count, deleted,
                   made, arr>>
    /\ UNCHANGED <<rlocked, map, queue, done>>

\* std::lock_guard lock { *(other.m_mtx.get()) }.
CtorLockCallTry == "try_lock"
CtorLockCall == "lock"
lg_lock(t) ==
    /\ pc[t] = "lg_lock"
    /\ CanLock(op[t].r)
    /\ locked' = Acquire(op[t].r, t)
    /\ hist' = Count(hist, CtorLockCall)
    /\ pc' = [pc EXCEPT ![t] = "lg_body"]
    /\ UNCHANGED <<mode, m_value, m_mtx, m_data, live, use_count, deleted, made,
                   arr, op, nops>>
    /\ UNCHANGED <<rlocked, map, queue, done>>

\* m_mtx = other.m_mtx; m_data = other.m_data; the guard unlocks.
CopyMtxFresh(src) == IF FreeMutexes = {} THEN Null ELSE NewMutex
CopyMtx(src) == m_mtx[src]
s_copy_ctor_body(t) ==
    /\ pc[t] = "lg_body"
    /\ op[t].kind = "s_copy_ctor"
    /\ LET d == op[t].dst
           s == op[t].src IN
         /\ m_mtx' = [m_mtx EXCEPT ![d] = CopyMtx(s)]
         /\ m_data' = [m_data EXCEPT ![d] = m_data[s]]
         /\ use_count' = AddRef(use_count, m_data[s])
         /\ live' = [live EXCEPT ![d] = TRUE]
         /\ hist' = Count([hist EXCEPT !.copied[d] = s], "unlock")
    /\ locked' = Release(op[t].r, t)
    /\ Finish(t)
    /\ UNCHANGED <<mode, m_value, deleted, made, arr, nops>>
    /\ UNCHANGED <<rlocked, map, queue, done>>

\* m_mtx = std::move(other.m_mtx); m_data = std::move(other.m_data); the guard
\* unlocks.
MoveCountCopy(uc, p) == AddRef(uc, p)
MoveCount(uc, p) == uc
s_move_ctor_body(t) ==
    /\ pc[t] = "lg_body"
    /\ op[t].kind = "s_move_ctor"
    /\ LET d == op[t].dst
           s == op[t].src IN
         /\ m_mtx' = [m_mtx EXCEPT ![d] = m_mtx[s], ![s] = Null]
         /\ m_data' = [m_data EXCEPT ![d] = m_data[s], ![s] = Null]
         /\ use_count' = MoveCount(use_count, m_data[s])
         /\ live' = [live EXCEPT ![d] = TRUE]
         /\ hist' = Count([hist EXCEPT !.moved = @ \cup {s}], "unlock")
    /\ locked' = Release(op[t].r, t)
    /\ Finish(t)
    /\ UNCHANGED <<mode, m_value, deleted, made, arr, nops>>
    /\ UNCHANGED <<rlocked, map, queue, done>>

\* operator=(const shared_ptr&) / operator=(shared_ptr&&) is called.
\* if (this == std::addressof(other)) return *this;
IsSelfNever(d, s) == FALSE
IsSelf(d, s) == d = s

s_assign_call(t, k, d, s) ==
    /\ Begin(t, [NoOp EXCEPT !.kind = k, !.dst = d, !.src = s], "as_check")
    /\ UNCHANGED <<mode, m_value, m_mtx, m_data, live, locked, use_count, deleted,
                   made, arr, hist>>
    /\ UNCHANGED <<rlocked, map, queue, done>>

s_assign(t, k, d, s) ==
    /\ mode \in SharedModes
    /\ Ready(t)
    /\ d \in Own(t)
    /\ live[d]
    /\ s \in Readable(t)
    /\ k = "s_move_assign" => Owner(s) = t
    /\ s_assign_call(t, k, d, s)

\* The identity test, then auto tmp_ref_to_mtx { this->m_mtx } and
\* std::scoped_lock lock { *tmp, other } for the copy,
\* { *tmp, *(other.m_mtx.get()) } for the move.
s_assign_check(t) ==
    /\ pc[t] = "as_check"
    /\ LET d == op[t].dst
           s == op[t].src IN
         IF IsSelf(d, s)
         THEN Finish(t)
         ELSE IF m_mtx[d] = Null \/ (op[t].kind = "s_move_assign" /\ m_mtx[s] = Null)
         THEN /\ pc' = [pc EXCEPT ![t] = "crashed"]
              /\ op' = op
         ELSE /\ pc' = [pc EXCEPT ![t] = "sl_lock"]
              /\ op' = [op EXCEPT ![t].tmp = m_mtx[d], ![t].l1 = MtxL(m_mtx[d]),
                          ![t].l2 = IF op[t].kind = "s_copy_assign" THEN HandleL(s)
                                    ELSE MtxL(m_mtx[s]),
                          ![t].r = m_mtx[d]]
    /\ UNCHANGED <<mode, m_value, m_mtx, m_data, live, locked, use_count, deleted,
                   made, arr, nops, hist>>
    /\ UNCHANGED <<rlocked, map, queue, done>>

\* m_mtx = other.m_mtx; m_data = other.m_data.
s_copy_assign_body(t) ==
    /\ pc[t] = "body"
    /\ op[t].kind = "s_copy_assign"
    /\ LET d == op[t].dst
           s == op[t].src IN
         /\ m_mtx' = [m_mtx EXCEPT ![d] = m_mtx[s]]
         /\ m_data' = [m_data EXCEPT ![d] = m_data[s]]
         /\ use_count' = DropRef(AddRef(use_count, m_data[s]), m_data[d])
         /\ deleted' = DropDel(deleted, AddRef(use_count, m_data[s]), m_data[d])
         /\ hist' = [hist EXCEPT !.copied = Unalias(@, d), !.moved = @ \ {d}]
    /\ pc' = [pc EXCEPT ![t] = "sl_unlock"]
    /\ UNCHANGED <<mode, m_value, live, locked, made, arr, op, nops>>
    /\ UNCHANGED <<rlocked, map, queue, done>>

\* m_mtx = std::move(other.m_mtx); m_data = std::move(other.m_data).
s_move_assign_body(t) ==
    /\ pc[t] = "body"
    /\ op[t].kind = "s_move_assign"
    /\ LET d == op[t].dst
           s == op[t].src IN
         /\ m_mtx' = [m_mtx EXCEPT ![d] = m_mtx[s], ![s] = Null]
         /\ m_data' = [m_data EXCEPT ![d] = m_data[s], ![s] = Null]
         /\ use_count' = DropRef(use_count, m_data[d])
         /\ deleted' = DropDel(deleted, use_count, m_data[d])
         /\ hist' = [hist EXCEPT !.copied = Unalias(@, d),
                                 !.moved = (@ \ {d}) \cup {s}]
    /\ pc' = [pc EXCEPT ![t] = "sl_unlock"]
    /\ UNCHANGED <<mode, m_value, live, locked, made, arr, op, nops>>
    /\ UNCHANGED <<rlocked, map, queue, done>>

\* reset() is called: new_mutex = std::make_shared<t_mutex>(), lock_guard on it;
\* with m_mtx == nullptr (a moved-from handle) the new mutex is installed at once.
s_reset_call(t, d) ==
    /\ Ready(t)
    /\ FreeMutexes # {}
    /\ IF m_mtx[d] = Null
       THEN /\ nops' = [nops EXCEPT ![t] = @ + 1]
            /\ m_mtx' = [m_mtx EXCEPT ![d] = NewMutex]
            /\ m_data' = [m_data EXCEPT ![d] = Null]
            /\ use_count' = DropRef(use_count, m_data[d])
            /\ deleted' = DropDel(deleted, use_count, m_data[d])
            /\ hist' = [hist EXCEPT !.copied = Unalias(@, d), !.moved = @ \ {d}]
            /\ op' = [op EXCEPT ![t] = [NoOp EXCEPT !.kind = "s_reset", !.dst = d,
                                                    !.newm = NewMutex]]
            /\ UNCHANGED <<pc, locked>>
       ELSE /\ Begin(t, [NoOp EXCEPT !.kind = "s_reset", !.dst = d,
                                     !.newm = NewMutex, !.tmp = m_mtx[d],
                                     !.r = m_mtx[d]], "rs_lock")
            /\ locked' = Acquire(NewMutex, t)
            /\ UNCHANGED <<m_mtx, m_data, use_count, deleted, hist>>
    /\ UNCHANGED <<mode, m_value, live, made, arr>>
    /\ UNCHANGED <<rlocked, map, queue, done>>

s_reset(t, d) ==
    /\ mode \in SharedModes
    /\ d \in Own(t)
    /\ live[d]
    /\ s_reset_call(t, d)

\* std::lock_guard lock_old_mutex { *(tmp_ref_to_mtx.get()) }.
s_reset_lock(t) ==
    /\ pc[t] = "rs_lock"
    /\ CanLock(op[t].tmp)
    /\ locked' = Acquire(op[t].tmp, t)
    /\ pc' = [pc EXCEPT ![t] = "rs_body"]
    /\ UNCHANGED <<mode, m_value, m_mtx, m_data, live, use_count, deleted, made,
                   arr, op, nops, hist>>
    /\ UNCHANGED <<rlocked, map, queue, done>>

\* m_mtx = std::move(new_mutex); m_data.reset(); both guards unlock.
s_reset_body(t) ==
    /\ pc[t] = "rs_body"
    /\ LET d == op[t].dst IN
         /\ m_mtx' = [m_mtx EXCEPT ![d] = op[t].newm]
         /\ m_data' = [m_data EXCEPT ![d] = Null]
         /\ use_count' = DropRef(use_count, m_data[d])
         /\ deleted' = DropDel(deleted, use_count, m_data[d])
         /\ hist' = [hist EXCEPT !.copied = Unalias(@, d), !.moved = @ \ {d}]
    /\ locked' = [locked EXCEPT ![op[t].tmp] = @ \ {t}, ![op[t].newm] = @ \ {t}]
    /\ Finish(t)
    /\ UNCHANGED <<mode, m_value, live, made, arr, nops>>
    /\ UNCHANGED <<rlocked, map, queue, done>>

\* reset(new_pointer) is called: new_mutex, tmp_ref_to_mtx, then
\* std::scoped_lock lock { *(tmp_ref_to_mtx.get()), *(new_mutex.get()) }.
s_reset_args(t, d) ==
    /\ mode = "shared"
    /\ Ready(t)
    /\ d \in Own(t)
    /\ live[d]
    /\ FreeMutexes # {}
    /\ FreshPayloads # {}
    /\ IF m_mtx[d] = Null
       THEN Crash(t, [NoOp EXCEPT !.kind = "s_reset_args", !.np = NewPayload])
       ELSE Begin(t, [NoOp EXCEPT !.kind = "s_reset_args", !.dst = d,
                         !.np = NewPayload, !.newm = NewMutex, !.tmp = m_mtx[d],
                         !.l1 = MtxL(m_mtx[d]), !.l2 = MtxL(NewMutex),
                         !.r = m_mtx[d]], "sl_lock")
    /\ made' = made \cup {NewPayload}
    /\ UNCHANGED <<mode, m_value, m_mtx, m_data, live, locked, use_count, deleted,
                   arr, hist>>
    /\ UNCHANGED <<rlocked, map, queue, done>>

\* m_mtx = std::move(new_mutex); m_data.reset(new_pointer...).
s_reset_args_body(t) ==
    /\ pc[t] = "body"
    /\ op[t].kind = "s_reset_args"
    /\ LET d == op[t].dst IN
         /\ m_mtx' = [m_mtx EXCEPT ![d] = op[t].newm]
         /\ m_data' = [m_data EXCEPT ![d] = op[t].np]
         /\ use_count' = AddRef(DropRef(use_count, m_data[d]), op[t].np)
         /\ deleted' = DropDel(deleted, use_count, m_data[d])
         /\ hist' = [hist EXCEPT !.copied = Unalias(@, d), !.moved = @ \ {d}]
    /\ pc' = [pc EXCEPT ![t] = "sl_unlock"]
    /\ op' = [op EXCEPT ![t].newm = Null, ![t].np = Null]
    /\ UNCHANGED <<mode, m_value, live, locked, made, arr, nops>>
    /\ UNCHANGED <<rlocked, map, queue, done>>

\* ~shared_ptr(): m_data, then m_mtx, is released; no lock is taken.
DestroyAll(hs) ==
    /\ live' = [h \in SH |-> live[h] /\ h \notin hs]
    /\ m_mtx' = [h \in SH |-> IF h \in hs THEN Null ELSE m_mtx[h]]
    /\ m_data' = [h \in SH |-> IF h \in hs THEN Null ELSE m_data[h]]
    /\ LET n(p) == Cardinality({h \in hs : live[h] /\ m_data[h] = p}) IN
         /\ use_count' = [p \in Payloads |-> use_count[p] - n(p)]
         /\ deleted' = [p \in Payloads |->
                          IF n(p) > 0 /\ use_count[p] = n(p)
                          THEN deleted[p] + 1 ELSE deleted[p]]
    /\ hist' = [hist EXCEPT
                  !.copied = [k \in SH |-> IF k \in hs \/ @[k] \in hs
                                           THEN NoH ELSE @[k]],
                  !.moved = @ \ hs]

s_destroy(t, d) ==
    /\ mode = "shared"
    /\ Ready(t)
    /\ d \in Own(t)
    /\ live[d]
    /\ m_mtx[d] # Null => t \notin locked[m_mtx[d]]
    /\ DestroyAll({d})
    /\ nops' = [nops EXCEPT ![t] = @ + 1]
    /\ UNCHANGED <<mode, m_value, locked, made, arr, pc, op>>
    /\ UNCHANGED <<rlocked, map, queue, done>>

\* p->f(): operator->() is called; t_proxy_locker_ret(mutex_ref(), m_data.get())
\* evaluates both arguments before the guard's constructor runs.
s_arrow(t, h) ==
    /\ mode \in SharedModes
    /\ Ready(t)
    /\ h \in Readable(t)
    /\ IF m_mtx[h] = Null
       THEN /\ Crash(t, NoOp)
            /\ hist' = hist
       ELSE /\ Begin(t, [NoOp EXCEPT !.kind = "s_arrow", !.dst = h,
                                     !.r = m_mtx[h], !.ptr = m_data[h]], "s_plock")
            /\ hist' = Note(hist, Access(h))
    /\ UNCHANGED <<mode, m_value, m_mtx, m_data, live, locked, use_count, deleted,
                   made, arr>>
    /\ UNCHANGED <<rlocked, map, queue, done>>

\* proxy_locker::proxy_locker: m_lock(mtx).
s_proxy_lock(t) ==
    /\ pc[t] = "s_plock"
    /\ LockAs(GuardLock(op[t]), op[t].r, t)
    /\ pc' = [pc EXCEPT ![t] = "s_deref"]
    /\ UNCHANGED <<mode, m_value, m_mtx, m_data, live, use_count, deleted, made,
                   arr, op, nops>>
    /\ UNCHANGED <<map, queue, done>>

\* proxy_locker::operator->(), then the guard dies and unlocks.
s_proxy_deref(t) ==
    /\ pc[t] = "s_deref"
    /\ IF Throws(op[t].ptr)
       THEN /\ UnwindAs(GuardLock(op[t]), op[t].r, t)
            /\ pc' = [pc EXCEPT ![t] = "thrown"]
            /\ op' = op
       ELSE IF op[t].kind \in Members
       THEN /\ UNCHANGED <<locked, rlocked, hist>>
            /\ pc' = [pc EXCEPT ![t] = "member"]
            /\ op' = op
       ELSE /\ UnlockAs(GuardLock(op[t]), op[t].r, t)
            /\ Finish(t)
    /\ UNCHANGED <<mode, m_value, m_mtx, m_data, live, use_count, deleted, made,
                   arr, nops>>
    /\ UNCHANGED <<map, queue, done>>

\* lock(): mutex_ref().lock().
s_lock_call(t, h) ==
    /\ mode \in LockModes
    /\ Ready(t)
    /\ h \in Readable(t)
    /\ m_mtx[h] # Null
    /\ Begin(t, [NoOp EXCEPT !.kind = "s_lock", !.dst = h, !.r = m_mtx[h]],
             "s_lock")
    /\ UNCHANGED <<mode, m_value, m_mtx, m_data, live, locked, use_count, deleted,
                   made, arr, hist>>
    /\ UNCHANGED <<rlocked, map, queue, done>>

s_lock(t) ==
    /\ pc[t] = "s_lock"
    /\ CanLock(op[t].r)
    /\ locked' = Acquire(op[t].r, t)
    /\ Finish(t)
    /\ UNCHANGED <<mode, m_value, m_mtx, m_data, live, use_count, deleted, made,
                   arr, nops, hist>>
    /\ UNCHANGED <<rlocked, map, queue, done>>

\* unlock(): mutex_ref().unlock(), called by the thread that locked.
s_unlock(t, h) ==
    /\ mode \in LockModes
    /\ pc[t] = "idle"
    /\ h \in Readable(t)
    /\ m_mtx[h] # Null
    /\ t \in locked[m_mtx[h]]
    /\ locked' = Release(m_mtx[h], t)
    /\ UNCHANGED <<mode, m_value, m_mtx, m_data, live, use_count, deleted, made,
                   arr, pc, op, nops, hist>>
    /\ UNCHANGED <<rlocked, map, queue, done>>

\* The thread function returns: its handles go out of scope.
thread_exit(t) ==
    /\ pc[t] = "idle"
    /\ Held(t) = {}
    /\ pc' = [pc EXCEPT ![t] = "done"]
    /\ DestroyAll(Own(t))
    /\ UNCHANGED <<mode, m_value, locked, made, arr, op, nops>>
    /\ UNCHANGED <<rlocked, map, queue, done>>

\* The threads are joined and the main thread's handles go out of scope.
main_exit ==
    /\ mode \in {"unique", "shared"}
    /\ \A t \in Threads : pc[t] = "done"
    /\ mode' = IF mode = "shared" THEN "shared_end" ELSE "unique_end"
    /\ IF mode = "shared"
       THEN /\ DestroyAll({h \in SH : Owner(h) = "main"})
            /\ m_value' = m_value
       ELSE /\ m_value' = [h \in UH |-> Null]
            /\ deleted' = [p \in Payloads |->
                             IF \E h \in UH : m_value[h] = p
                             THEN deleted[p] + 1 ELSE deleted[p]]
            /\ UNCHANGED <<m_mtx, m_data, live, use_count, hist>>
    /\ UNCHANGED <<locked, made, arr, pc, op, nops>>
    /\ UNCHANGED <<rlocked, map, queue, done>>

\* ------------------------------------------------------------------ the runs
\* No reader owns a mutex; the containers of the map and queue tests are empty.
InitContainers ==
    /\ rlocked = [m \in Mutexes |-> {}]
    /\ map = <<>>
    /\ queue = <<>>
    /\ done = FALSE

InitCommon ==
    /\ locked = [m \in Mutexes |-> {}]
    /\ arr = [j \in 0..(ArrLen - 1) |-> 0]
    /\ pc = [t \in Threads |-> "idle"]
    /\ op = [t \in Threads |-> NoOp]
    /\ nops = [t \in Threads |-> 0]
    /\ hist = NoHist
    /\ InitContainers

\* auto a = ts::make_unique<T>(); auto b = ts::make_unique<T>();
InitU ==
    /\ mode = "unique"
    /\ m_value = [h \in UH |-> IF h = "a" THEN 1 ELSE 2]
    /\ m_mtx = [h \in SH |-> Null]
    /\ m_data = [h \in SH |-> Null]
    /\ live = [h \in SH |-> FALSE]
    /\ use_count = [p \in Payloads |-> 0]
    /\ deleted = [p \in Payloads |-> 0]
    /\ made = {1, 2}
    /\ InitCommon


\* auto r = ts::make_shared<T>(); each thread function captures a copy of it.
InitS ==
    /\ mode = "shared"
    /\ m_value = [h \in UH |-> Null]
    /\ m_mtx = [h \in SH |-> IF h \in {"r", "x1", "x2"} THEN 1 ELSE Null]
    /\ m_data = [h \in SH |-> IF h \in {"r", "x1", "x2"} THEN 1 ELSE Null]
    /\ live = [h \in SH |-> h \in {"r", "x1", "x2"}]
    /\ use_count = [p \in Payloads |-> IF p = 1 THEN 3 ELSE 0]
    /\ deleted = [p \in Payloads |-> 0]
    /\ made = {1}
    /\ locked = [m \in Mutexes |-> {}]
    /\ arr = [j \in 0..(ArrLen - 1) |-> 0]
    /\ pc = [t \in Threads |-> "idle"]
    /\ op = [t \in Threads |-> NoOp]
    /\ nops = [t \in Threads |-> 0]
    /\ InitContainers
    /\ hist = [NoHist EXCEPT !.copied = [h \in SH |-> IF h \in {"x1", "x2"}
                                                      THEN "r" ELSE NoH]]

Init == InitU \/ InitS

Next ==
    \/ \E t \in Threads, h \in UH : u_arrow(t, h)
    \/ \E t \in Threads : u_get(t)
    \/ \E t \in Threads : u_proxy_lock(t)
    \/ \E t \in Threads : u_proxy_deref(t)
    \/ \E t \in Threads, h \in UH : u_lock_call(t, h)
    \/ \E t \in Threads : u_lock(t)
    \/ \E t \in Threads, h \in UH : u_unlock(t, h)
    \/ \E t \in Threads, h \in UH : u_try_lock(t, h)
    \/ \E t \in Threads, h \in UH : u_release(t, h)
    \/ \E t \in Threads, h \in UH, f \in BOOLEAN : u_reset(t, h, f)
    \/ \E t \in Threads : u_guard(t)
    \/ \E t \in Threads : u_release_body(t)
    \/ \E t \in Threads : u_reset_body(t)
    \/ \E t \in Threads, d \in UH, s \in UH : u_move(t, d, s)
    \/ \E t \in Threads : sl_resolve(t)
    \/ \E t \in Threads : sl_lock(t)
    \/ \E t \in Threads : sl_try_resolve(t)
    \/ \E t \in Threads : sl_try(t)
    \/ \E t \in Threads : u_move_body(t)
    \/ \E t \in Threads : sl_unlock(t)
    \/ \E t \in Threads, d \in SH, f \in BOOLEAN : s_new(t, d, f)
    \/ \E t \in Threads, k \in {"s_copy_ctor", "s_move_ctor"}, d \in SH, s \in SH :
          s_ctor(t, k, d, s)
    \/ \E t \in Threads : lg_lock(t)
    \/ \E t \in Threads : s_copy_ctor_body(t)
    \/ \E t \in Threads : s_move_ctor_body(t)
    \/ \E t \in Threads, k \in {"s_copy_assign", "s_move_assign"}, d \in SH, s \in SH :
          s_assign(t, k, d, s)
    \/ \E t \in Threads : s_assign_check(t)
    \/ \E t \in Threads : s_copy_assign_body(t)
    \/ \E t \in Threads : s_move_assign_body(t)
    \/ \E t \in Threads, d \in SH : s_reset(t, d)
    \/ \E t \in Threads : s_reset_lock(t)
    \/ \E t \in Threads : s_reset_body(t)
    \/ \E t \in Threads, d \in SH : s_reset_args(t, d)
    \/ \E t \in Threads : s_reset_args_body(t)
    \/ \E t \in Threads, d \in SH : s_destroy(t, d)
    \/ \E t \in Threads, h \in SH : s_arrow(t, h)
    \/ \E t \in Threads : s_proxy_lock(t)
    \/ \E t \in Threads : s_proxy_deref(t)
    \/ \E t \in Threads, h \in SH : s_lock_call(t, h)
    \/ \E t \in Threads : s_lock(t)
    \/ \E t \in Threads, h \in SH : s_unlock(t, h)
    \/ \E t \in Threads : catch(t)
    \/ \E t \in Threads : thread_exit(t)
    \/ main_exit

Spec == Init /\ [][Next]_vars

\* ------------------------------------------------- the indexed guard, ++(*p)[j]
\* The array is payload 1, behind the unique handle "a" or the shared handle "r".
ArrHandle == IF mode = "unique" THEN "a" ELSE "r"
Idx == 0..(ArrLen - 1)

\* The temporary guard that operator*() returns lives to the end of the full
\* expression: the return of operator[] leaves the mutex owned.
IndexGuardDrops(lk, m, t) == [lk EXCEPT ![m] = @ \ {t}]
IndexGuardHolds(lk, m, t) == lk

\* ++(*p)[j] (k = "inc") or --(*p)[j] (k = "dec") is started: operator*().
i_star(t, k, j) ==
    /\ Ready(t)
    /\ Begin(t, [NoOp EXCEPT !.kind = k, !.dst = ArrHandle, !.idx = j], "i_get")
    /\ hist' = Note(IF k = "inc" THEN [hist EXCEPT !.incs[j] = @ + 1]
                                 ELSE [hist EXCEPT !.decs[j] = @ + 1], "writes")
    /\ UNCHANGED <<mode, m_value, m_mtx, m_data, live, locked, use_count, deleted,
                   made, arr>>
    /\ UNCHANGED <<rlocked, map, queue, done>>

\* The arguments of the guard: m_mtx / mutex_ref(), and m_value.get() / m_data.get().
i_get(t) ==
    /\ pc[t] = "i_get"
    /\ pc' = [pc EXCEPT ![t] = "i_lock"]
    /\ op' = [op EXCEPT ![t].ptr = IF mode = "unique" THEN m_value[op[t].dst]
                                   ELSE m_data[op[t].dst],
                        ![t].r = IF mode = "unique" THEN UMtx(op[t].dst)
                                 ELSE m_mtx[op[t].dst]]
    /\ UNCHANGED <<mode, m_value, m_mtx, m_data, live, locked, use_count, deleted,
                   made, arr, nops, hist>>
    /\ UNCHANGED <<rlocked, map, queue, done>>

\* proxy_locker_for_subscript::proxy_locker_for_subscript: m_lock(mtx).
i_lock(t) ==
    /\ pc[t] = "i_lock"
    /\ LockAs(GuardLock(op[t]), op[t].r, t)
    /\ pc' = [pc EXCEPT ![t] = "i_index"]
    /\ UNCHANGED <<mode, m_value, m_mtx, m_data, live, use_count, deleted, made,
                   arr, op, nops>>
    /\ UNCHANGED <<map, queue, done>>

\* operator[](index): throws on a null m_ptr (the guard unwinds), else returns
\* m_ptr[index], which the increment then loads.
i_index(t) ==
    /\ pc[t] = "i_index"
    /\ IF Throws(op[t].ptr)
       THEN /\ UnwindAs(GuardLock(op[t]), op[t].r, t)
            /\ pc' = [pc EXCEPT ![t] = "thrown"]
            /\ op' = op
       ELSE /\ locked' = IndexGuardHolds(locked, op[t].r, t)
            /\ rlocked' = IndexGuardHolds(rlocked, op[t].r, t)
            /\ hist' = hist
            /\ pc' = [pc EXCEPT ![t] = "i_store"]
            /\ op' = [op EXCEPT ![t].val = arr[op[t].idx]]
    /\ UNCHANGED <<mode, m_value, m_mtx, m_data, live, use_count, deleted, made,
                   arr, nops>>
    /\ UNCHANGED <<map, queue, done>>

\* The increment stores the new value; at the ";" the guard dies and unlocks.
i_store(t) ==
    /\ pc[t] = "i_store"
    /\ arr' = CASE op[t].kind = "inc" -> [arr EXCEPT ![op[t].idx] = op[t].val + 1]
              [] op[t].kind = "dec" -> [arr EXCEPT ![op[t].idx] = op[t].val - 1]
              [] OTHER -> arr
    /\ UnlockAs(GuardLock(op[t]), op[t].r, t)
    /\ Finish(t)
    /\ UNCHANGED <<mode, m_value, m_mtx, m_data, live, use_count, deleted, made,
                   nops>>
    /\ UNCHANGED <<map, queue, done>>

\* auto arr_ptr = ts::make_unique<int32_t[]>(n) / ts::make_shared<int32_t[]>(n),
\* every element set to 0.
InitArr ==
    /\ mode \in {"unique", "shared"}
    /\ m_value = [h \in UH |-> IF mode = "unique" /\ h = "a" THEN 1 ELSE Null]
    /\ m_mtx = [h \in SH |-> IF mode = "shared" /\ h = "r" THEN 1 ELSE Null]
    /\ m_data = [h \in SH |-> IF mode = "shared" /\ h = "r" THEN 1 ELSE Null]
    /\ live = [h \in SH |-> mode = "shared" /\ h = "r"]
    /\ use_count = [p \in Payloads |-> IF mode = "shared" /\ p = 1 THEN 1 ELSE 0]
    /\ deleted = [p \in Payloads |-> 0]
    /\ made = {1}
    /\ InitCommon

NextArr ==
    \/ \E t \in Threads, k \in {"inc", "dec"}, j \in Idx : i_star(t, k, j)
    \/ \E t \in Threads : i_get(t)
    \/ \E t \in Threads : i_lock(t)
    \/ \E t \in Threads : i_index(t)
    \/ \E t \in Threads : i_store(t)
    \/ \E t \in Threads : thread_exit(t)

SpecArr == InitArr /\ [][NextArr]_vars

\* ------------------------------------- one planned assignment per thread, fair
NoPlan == [k |-> "none", d |-> NoH, s |-> NoH]
Plan(k, d, s) == [k |-> k, d |-> d, s |-> s]
Planned(t) == hist.plan[t] # NoPlan
Done(t) == pc[t] = "idle" /\ nops[t] = MaxOps
AllDone == \A t \in Threads : Done(t)

\* A thread runs its one statement; a thread without one has nothing to do.
InitPlan(plans) ==
    /\ InitContainers
    /\ locked = [m \in Mutexes |-> {}]
    /\ arr = [j \in Idx |-> 0]
    /\ pc = [t \in Threads |-> "idle"]
    /\ op = [t \in Threads |-> NoOp]
    /\ \E pl \in [Threads -> plans] :
         /\ hist = [NoHist EXCEPT !.plan = pl]
         /\ nops = [t \in Threads |-> IF pl[t] = NoPlan THEN MaxOps ELSE MaxOps - 1]

\* d = std::move(s) on the two unique handles a and b.
PlansU == {NoPlan} \cup {Plan("u_move", d, s) : d \in UH, s \in UH}

InitMove ==
    /\ mode = "unique"
    /\ m_value = [h \in UH |-> IF h = "a" THEN 1 ELSE 2]
    /\ m_mtx = [h \in SH |-> Null]
    /\ m_data = [h \in SH |-> Null]
    /\ live = [h \in SH |-> FALSE]
    /\ use_count = [p \in Payloads |-> 0]
    /\ deleted = [p \in Payloads |-> 0]
    /\ made = {1, 2}
    /\ InitPlan(PlansU)

u_move_planned(t) ==
    /\ Planned(t)
    /\ u_move(t, hist.plan[t].d, hist.plan[t].s)

StepMove(t) ==
    \/ u_move_planned(t)
    \/ sl_lock(t)
    \/ sl_try(t)
    \/ u_move_body(t)
    \/ sl_unlock(t)

NextMove == \E t \in Threads : StepMove(t)

\* The scheduler runs every thread that can take a step.
FairMove == InitMove /\ [][NextMove]_vars /\ \A t \in Threads : WF_vars(StepMove(t))

\* d = s / d = std::move(s) on two shared handles x1 and x2 that start with a
\* mutex and a payload each.
PlanHandles == {"x1", "x2"}
PlansS == {NoPlan} \cup {Plan(k, d, s) : k \in {"s_copy_assign", "s_move_assign"},
                                         d \in PlanHandles, s \in PlanHandles}

InitAssign ==
    /\ mode = "shared"
    /\ m_value = [h \in UH |-> Null]
    /\ m_mtx = [h \in SH |-> CASE h = "x1" -> 1 [] h = "x2" -> 2 [] OTHER -> Null]
    /\ m_data = [h \in SH |-> CASE h = "x1" -> 1 [] h = "x2" -> 2 [] OTHER -> Null]
    /\ live = [h \in SH |-> h \in PlanHandles]
    /\ use_count = [p \in Payloads |-> IF p \in {1, 2} THEN 1 ELSE 0]
    /\ deleted = [p \in Payloads |-> 0]
    /\ made = {1, 2}
    /\ InitPlan(PlansS)

s_assign_planned(t) ==
    /\ Planned(t)
    /\ s_assign_call(t, hist.plan[t].k, hist.plan[t].d, hist.plan[t].s)

StepAssign(t) ==
    \/ s_assign_planned(t)
    \/ s_assign_check(t)
    \/ sl_resolve(t)
    \/ sl_lock(t)
    \/ sl_try_resolve(t)
    \/ sl_try(t)
    \/ s_copy_assign_body(t)
    \/ s_move_assign_body(t)
    \/ sl_unlock(t)

NextAssign == \E t \in Threads : StepAssign(t)

FairAssign ==
    InitAssign /\ [][NextAssign]_vars /\ \A t \in Threads : WF_vars(StepAssign(t))

\* ------------------------------------------------------------------ properties
\* Where a thread is blocked in a lock() of mutex m.
Waiting(t, m) ==
    \/ pc[t] \in {"u_plock", "u_lock", "u_guard"} /\ UMtx(op[t].dst) = m
    \/ pc[t] \in {"sl_lock", "lg_lock", "s_plock", "s_lock"} /\ op[t].r = m
    \/ pc[t] = "rs_lock" /\ op[t].tmp = m

\* C1: at any instant at most one thread owns a handle's mutex in exclusive
\* mode, whether through a guard of operator-> / operator*, through lock() or
\* through a mutating member.
C1_MutualExclusion == \A m \in Mutexes : Cardinality(locked[m]) <= 1

\* One thread owns the mutex while the other is blocked in lock() on it.
C1_Witness ==
    \E t \in Threads, u \in Threads, m \in Mutexes :
        t # u /\ locked[m] = {t} /\ Waiting(u, m)

\* C2: after every thread has returned, each element of the array holds its
\* initial value 0 plus the increments minus the decrements that were applied to
\* it through the indexed guard.
C2_NoLostUpdate ==
    (\A t \in Threads : pc[t] = "done")
        => \A j \in Idx : arr[j] = hist.incs[j] - hist.decs[j]

\* Both threads have returned and one element took three updates, so the two
\* threads updated the same element.
C2_Witness ==
    /\ \A t \in Threads : pc[t] = "done"
    /\ \E j \in Idx : hist.incs[j] >= 2 /\ hist.decs[j] >= 1

\* C3: the pointer a guard of unique_ptr::operator-> hands out is the payload
\* the handle owns at that moment, and that payload has been neither deleted nor
\* released, whatever reset(), release() or move another thread runs.
C3_GuardSeesOwnedPayload ==
    \A t \in Threads :
        pc[t] = "u_deref" =>
            /\ op[t].ptr = m_value[op[t].dst]
            /\ op[t].ptr # Null => deleted[op[t].ptr] = 0

\* The thread's statement is h = std::move(h).
SelfMove(t) == hist.plan[t].k = "u_move" /\ hist.plan[t].d = hist.plan[t].s

\* C4: a unique_ptr move-assigned from itself returns, and then the handle owns
\* the payload it owned before and that payload is not deleted.
C4_SelfMoveReturns ==
    /\ \A t \in Threads : SelfMove(t) ~> Done(t)
    /\ [](\A t \in Threads :
            (SelfMove(t) /\ Done(t) /\ \A u \in Threads \ {t} : ~Planned(u))
                => /\ m_value[hist.plan[t].d] = (IF hist.plan[t].d = "a" THEN 1 ELSE 2)
                   /\ \A p \in Payloads : deleted[p] = 0)

\* C5: p = p and p = std::move(p) on a shared_ptr return from the identity test:
\* the step takes no lock and changes neither the mutex nor the payload reference
\* nor any owner count, also while the handle's mutex is owned.
C5_SelfAssignNoOp ==
    [][\A t \in Threads :
         (pc[t] = "as_check" /\ op[t].dst = op[t].src /\ pc'[t] # "as_check")
            => /\ pc'[t] = "idle"
               /\ UNCHANGED <<m_mtx, m_data, live, locked, use_count, deleted>>]_vars

\* A self-assignment is at its identity test while the other thread owns the
\* handle's mutex.
C5_Witness ==
    \E t \in Threads, u \in Threads :
        /\ t # u
        /\ pc[t] = "as_check"
        /\ op[t].dst = op[t].src
        /\ m_mtx[op[t].dst] # Null
        /\ locked[m_mtx[op[t].dst]] = {u}

\* The two statements, and the state the two payloads must end in.
OppositeMoves ==
    /\ hist.plan["t1"] = Plan("u_move", "a", "b")
    /\ hist.plan["t2"] = Plan("u_move", "b", "a")
OneSurvivor ==
    \E p \in {1, 2} :
        /\ Cardinality({h \in UH : m_value[h] = p}) = 1
        /\ deleted[p] = 0
        /\ deleted[3 - p] = 1
        /\ \A h \in UH : m_value[h] # 3 - p

OppositeCopies ==
    /\ hist.plan["t1"] = Plan("s_copy_assign", "x1", "x2")
    /\ hist.plan["t2"] = Plan("s_copy_assign", "x2", "x1")

\* C7: with one thread running a = b and the other b = a on two shared_ptr
\* handles, both statements return, and afterwards the two handles reference the
\* same payload.
C7_OppositeCopiesComplete ==
    /\ OppositeCopies ~> AllDone
    /\ [](OppositeCopies /\ AllDone =>
            m_data["x1"] = m_data["x2"] /\ m_data["x1"] # Null)

\* C8: once every shared_ptr handle is destroyed, every payload that was
\* constructed has been deleted exactly once.
C8_BalancedLifecycle ==
    mode = "shared_end" =>
        /\ \A h \in SH : ~live[h]
        /\ \A p \in Payloads : deleted[p] = (IF p \in made THEN 1 ELSE 0)

\* All handles are gone after a run that constructed a second payload.
C8_Witness == mode = "shared_end" /\ Cardinality(made) >= 2

\* A payload some handle has owned; the handles that reference it now.
Adopted(p) == p \in made /\ \A t \in Threads : op[t].np # p
Referenced(p) == \E h \in SH : live[h] /\ m_data[h] = p

\* C9: the deleter of a payload runs at most once, and it has run exactly when
\* no shared_ptr handle references the payload any more.
C9_DeleterOnce ==
    mode \in {"shared", "shared_end"} =>
        \A p \in Payloads :
            /\ deleted[p] <= 1
            /\ Adopted(p) => (deleted[p] = 1 <=> ~Referenced(p))

\* A payload was deleted while handles to another payload are still alive.
C9_Witness ==
    /\ mode = "shared"
    /\ \E p \in Payloads, q \in Payloads :
         deleted[p] = 1 /\ q # p /\ Referenced(q) /\ use_count[q] >= 2

\* Two handles with the same mutex and the same payload.
Alias(h, g) == m_mtx[h] = m_mtx[g] /\ m_data[h] = m_data[g]

\* C10 as stated: a handle made by the copy constructor has the mutex and the
\* payload reference of its source until one of the two is reset or assigned to.
C10_AliasUntilResetOrAssign ==
    mode = "shared" =>
        \A h \in SH : hist.copied[h] # NoH => Alias(h, hist.copied[h])

\* C10: a handle made by the copy constructor has the mutex and the payload
\* reference of its source until one of the two is reset, assigned to, moved
\* from or destroyed.
C10_AliasUntilChanged ==
    mode = "shared" =>
        \A h \in SH :
            (hist.copied[h] # NoH /\ h \notin hist.moved
                 /\ hist.copied[h] \notin hist.moved)
                => Alias(h, hist.copied[h])

\* A thread copy-constructed y from its x, and both are untouched since.
C10_Witness ==
    \E t \in Threads, h \in SH :
        /\ Owner(h) = t
        /\ hist.copied[h] # NoH
        /\ Owner(hist.copied[h]) = t
        /\ m_mtx[h] # Null
        /\ h \notin hist.moved
        /\ hist.copied[h] \notin hist.moved

\* The step of thread t in which reset() or reset(p) replaces the references.
ResetStep(t) ==
    /\ pc[t] = "rs_body" \/ (pc[t] = "body" /\ op[t].kind = "s_reset_args")
    /\ pc'[t] # pc[t]
\* The step in which a reset() or reset(p) of thread t returns.
ResetReturns(t) ==
    /\ pc[t] = "rs_body" \/ (pc[t] = "sl_unlock" /\ op[t].kind = "s_reset_args")
    /\ pc'[t] = "idle"

\* C11: a.reset() and a.reset(p) change the mutex and payload references of a
\* only: every other live handle keeps its mutex reference and its payload
\* reference, its payload is not deleted by the reset, and when the reset has
\* returned the resetting thread no longer owns the mutex the aliases still use.
C11_ResetIsolated ==
    [][\A t \in Threads :
         /\ ResetStep(t) =>
              \A h \in SH \ {op[t].dst} :
                  live[h] => /\ m_mtx'[h] = m_mtx[h]
                             /\ m_data'[h] = m_data[h]
                             /\ m_data[h] # Null =>
                                  deleted'[m_data[h]] = deleted[m_data[h]]
         /\ ResetReturns(t) => t \notin locked'[op[t].tmp]]_vars

\* reset(p) has replaced a's references while a live alias still has the old
\* mutex and an undeleted payload.
C11_Witness ==
    \E t \in Threads, h \in SH :
        /\ pc[t] = "sl_unlock"
        /\ op[t].kind = "s_reset_args"
        /\ h # op[t].dst
        /\ live[h]
        /\ m_mtx[h] = op[t].tmp
        /\ m_mtx[op[t].dst] # op[t].tmp
        /\ m_data[h] # Null
        /\ m_data[h] # m_data[op[t].dst]
        /\ deleted[m_data[h]] = 0

\* ----------------------------------------- guarded access of Empty and Owning
\* A handle that owns no payload (default-constructed or constructed from nullptr).
Empty(h) == IF h \in UH THEN m_value[h] = Null ELSE m_data[h] = Null

\* ts::unique_ptr a, b and ts::shared_ptr r, each either Empty or Owning; the
\* payload of a and of r is the array.
InitAccess ==
    /\ mode \in {"unique", "shared"}
    /\ \E e \in BOOLEAN :
         /\ m_value = [h \in UH |-> IF mode = "unique" /\ h = "a" /\ ~e THEN 1 ELSE Null]
         /\ m_data = [h \in SH |-> IF mode = "shared" /\ h = "r" /\ ~e THEN 1 ELSE Null]
         /\ use_count = [p \in Payloads |->
                           IF mode = "shared" /\ p = 1 /\ ~e THEN 1 ELSE 0]
         /\ made = IF e THEN {} ELSE {1}
    /\ m_mtx = [h \in SH |-> IF mode = "shared" /\ h = "r" THEN 1 ELSE Null]
    /\ live = [h \in SH |-> mode = "shared" /\ h = "r"]
    /\ deleted = [p \in Payloads |-> 0]
    /\ InitCommon

NextAccess ==
    \/ \E t \in Threads, h \in UH : u_arrow(t, h)
    \/ \E t \in Threads : u_get(t)
    \/ \E t \in Threads : u_proxy_lock(t)
    \/ \E t \in Threads : u_proxy_deref(t)
    \/ \E t \in Threads, h \in SH : s_arrow(t, h)
    \/ \E t \in Threads : s_proxy_lock(t)
    \/ \E t \in Threads : s_proxy_deref(t)
    \/ \E t \in Threads, k \in {"inc", "dec"}, j \in Idx : i_star(t, k, j)
    \/ \E t \in Threads : i_get(t)
    \/ \E t \in Threads : i_lock(t)
    \/ \E t \in Threads : i_index(t)
    \/ \E t \in Threads : i_store(t)
    \/ \E t \in Threads : catch(t)
    \/ \E t \in Threads : thread_exit(t)

SpecAccess == InitAccess /\ [][NextAccess]_vars

\* The step in which the guard of thread t is dereferenced (operator-> or
\* operator[] of the guard), and the mutex that guard owns.
DerefStep(t) == pc[t] \in {"u_deref", "s_deref", "i_index"} /\ pc'[t] # pc[t]
GuardMutex(t) == IF op[t].dst \in UH THEN UMtx(op[t].dst) ELSE op[t].r

\* C12: p->f() and (*p)[i] raise null_ptr_exception when the handle is Empty,
\* and never when it is Owning (exceptions are enabled).
C12_ThrowsIffEmpty ==
    [][\A t \in Threads :
         DerefStep(t) => (pc'[t] = "thrown" <=> Empty(op[t].dst))]_vars

\* An Empty handle has just raised, through operator-> and through operator[].
C12_Witness ==
    \E t \in Threads, u \in Threads :
        /\ pc[t] = "thrown" /\ op[t].kind \in {"u_arrow", "s_arrow"}
        /\ pc[u] = "thrown" /\ op[u].kind \in {"inc", "dec"}

\* C13: a guarded access that raises null_ptr_exception gives the guard's mutex
\* back and changes nothing: after the raise the thread owns no mutex, and no
\* step of the access changes a payload reference, a mutex reference, an owner
\* count or a deleter count.
C13_ThrowLeavesNoTrace ==
    [][\A t \in Threads :
         /\ (DerefStep(t) /\ pc'[t] = "thrown") =>
              /\ locked' = [locked EXCEPT ![GuardMutex(t)] = @ \ {t}]
              /\ \A m \in Mutexes : t \notin locked'[m]
         /\ (pc[t] \in {"u_get", "u_plock", "u_deref", "s_plock", "s_deref",
                        "i_get", "i_lock", "i_index"} /\ pc'[t] # pc[t]) =>
              UNCHANGED <<m_value, m_mtx, m_data, live, use_count, deleted>>]_vars

\* After one thread's access raised, the other thread owns the same mutex.
C13_Witness ==
    \E t \in Threads, u \in Threads :
        /\ t # u
        /\ pc[t] = "thrown"
        /\ pc[u] \in {"u_deref", "s_deref", "i_index"}
        /\ op[u].dst = op[t].dst
        /\ locked[GuardMutex(t)] = {u}

\* ------------------------------------------------------- lock() and try_lock()
\* shared_ptr::try_lock(): mutex_ref().try_lock(); returns at once.
s_try_lock(t, h) ==
    /\ mode = "shared"
    /\ pc[t] = "idle"
    /\ nops[t] < MaxOps
    /\ h \in Readable(t)
    /\ IF m_mtx[h] = Null
       THEN /\ Crash(t, NoOp)
            /\ locked' = locked
       ELSE /\ t \notin locked[m_mtx[h]]
            /\ locked' = IF TryLock(m_mtx[h]) THEN Acquire(m_mtx[h], t) ELSE locked
            /\ op' = [op EXCEPT ![t] = [NoOp EXCEPT !.kind = "try_lock", !.dst = h,
                                                     !.val = Flag(TryLock(m_mtx[h]))]]
            /\ nops' = [nops EXCEPT ![t] = @ + 1]
            /\ pc' = pc
    /\ UNCHANGED <<mode, m_value, m_mtx, m_data, live, use_count, deleted, made,
                   arr, hist, rlocked, map, queue, done>>

NextTry ==
    \/ \E t \in Threads, h \in UH : u_lock_call(t, h)
    \/ \E t \in Threads : u_lock(t)
    \/ \E t \in Threads, h \in UH : u_unlock(t, h)
    \/ \E t \in Threads, h \in UH : u_try_lock(t, h)
    \/ \E t \in Threads, h \in SH : s_lock_call(t, h)
    \/ \E t \in Threads : s_lock(t)
    \/ \E t \in Threads, h \in SH : s_unlock(t, h)
    \/ \E t \in Threads, h \in SH : s_try_lock(t, h)
    \/ \E t \in Threads : thread_exit(t)

SpecTry == Init /\ [][NextTry]_vars

\* ------------------------------------------- readers and writers of one array
\* The fixtures with const aliases: mutable_ptr r owns the array, and const_ptr
\* y1 / y2 are ts::shared_ptr<const T, M> built from it (const_ptr{mutable_ptr}),
\* by the main thread before the tasks start or by the tasks themselves. The
\* instrumented fixture resets its counters first (dummy_shared_mutex::reset())
\* and builds its alias afterwards.
RWModes == {"shared_c", "shared_rw", "counting"}

\* auto x = (*const_ptr)[j]: a read through the subscript guard.
i_read(t, h, j) ==
    /\ mode \in RWModes
    /\ Ready(t)
    /\ h \in Readable(t)
    /\ Begin(t, [NoOp EXCEPT !.kind = "read", !.dst = h, !.idx = j], "i_get")
    /\ hist' = Note(hist, Access(h))
    /\ UNCHANGED <<mode, m_value, m_mtx, m_data, live, locked, use_count, deleted,
                   made, arr>>
    /\ UNCHANGED <<rlocked, map, queue, done>>

\* check_task: std::shared_lock lock{const_map} calls const_map.lock_shared().
s_lock_shared_call(t, h) ==
    /\ is_read_only(h) /\ is_shared_lockable
    /\ mode = "shared_rw"
    /\ Ready(t)
    /\ h \in Readable(t)
    /\ Begin(t, [NoOp EXCEPT !.kind = "s_lock_shared", !.dst = h, !.r = m_mtx[h]],
             "s_lock_shared")
    /\ UNCHANGED <<mode, m_value, m_mtx, m_data, live, locked, use_count, deleted,
                   made, arr, hist>>
    /\ UNCHANGED <<rlocked, map, queue, done>>

\* mutex_ref().lock_shared().
s_lock_shared(t) ==
    /\ pc[t] = "s_lock_shared"
    /\ CanLockShared(op[t].r)
    /\ rlocked' = [rlocked EXCEPT ![op[t].r] = @ \cup {t}]
    /\ pc' = [pc EXCEPT ![t] = "s_iter"]
    /\ op' = [op EXCEPT ![t].idx = 0, ![t].val = 0]
    /\ UNCHANGED <<mode, m_value, m_mtx, m_data, live, locked, use_count, deleted,
                   made, arr, nops, hist>>
    /\ UNCHANGED <<map, queue, done>>

\* check_task: for (auto& [key, value] : *(const_map.get())), one element a step;
\* the sum of the elements seen so far is kept in val.
s_iterate(t) ==
    /\ pc[t] = "s_iter"
    /\ op[t].idx < ArrLen
    /\ op' = [op EXCEPT ![t].idx = @ + 1, ![t].val = @ + arr[op[t].idx]]
    /\ UNCHANGED <<mode, m_value, m_mtx, m_data, live, locked, use_count, deleted,
                   made, arr, pc, nops, hist>>
    /\ UNCHANGED <<rlocked, map, queue, done>>

\* The std::shared_lock leaves scope: mutex_ref().unlock_shared().
s_unlock_shared(t) ==
    /\ pc[t] = "s_iter"
    /\ op[t].idx = ArrLen
    /\ rlocked' = [rlocked EXCEPT ![op[t].r] = @ \ {t}]
    /\ Finish(t)
    /\ UNCHANGED <<mode, m_value, m_mtx, m_data, live, locked, use_count, deleted,
                   made, arr, nops, hist>>
    /\ UNCHANGED <<map, queue, done>>

\* The const aliases the main thread has built before the tasks start.
PreBuilt == {{}, {"y1", "y2"}}

InitRW ==
    /\ mode \in RWModes
    /\ \E pre \in PreBuilt :
         /\ mode = "counting" => pre = {}
         /\ m_mtx = [h \in SH |-> IF h \in {"r"} \cup pre THEN 1 ELSE Null]
         /\ m_data = [h \in SH |-> IF h \in {"r"} \cup pre THEN 1 ELSE Null]
         /\ live = [h \in SH |-> h \in {"r"} \cup pre]
         /\ use_count = [p \in Payloads |-> IF p = 1 THEN 1 + Cardinality(pre)
                                           ELSE 0]
         /\ hist = [NoHist EXCEPT
                      !.copied = [h \in SH |-> IF h \in pre THEN "r" ELSE NoH]]
    /\ m_value = [h \in UH |-> Null]
    /\ deleted = [p \in Payloads |-> 0]
    /\ made = {1}
    /\ locked = [m \in Mutexes |-> {}]
    /\ arr = [j \in 0..(ArrLen - 1) |-> 0]
    /\ pc = [t \in Threads |-> "idle"]
    /\ op = [t \in Threads |-> NoOp]
    /\ nops = [t \in Threads |-> 0]
    /\ InitContainers

NextRW ==
    \/ \E t \in Threads, d \in {"y1", "y2"} : s_ctor(t, "s_copy_ctor", d, "r")
    \/ \E t \in Threads : lg_lock(t)
    \/ \E t \in Threads : s_copy_ctor_body(t)
    \/ \E t \in Threads, h \in SH : s_arrow(t, h)
    \/ \E t \in Threads : s_proxy_lock(t)
    \/ \E t \in Threads : s_proxy_deref(t)
    \/ \E t \in Threads, k \in {"inc", "dec"}, j \in Idx : i_star(t, k, j)
    \/ \E t \in Threads, h \in SH, j \in Idx : i_read(t, h, j)
    \/ \E t \in Threads : i_get(t)
    \/ \E t \in Threads : i_lock(t)
    \/ \E t \in Threads : i_index(t)
    \/ \E t \in Threads : i_store(t)
    \/ \E t \in Threads : s_lock_call(t, "r")
    \/ \E t \in Threads : s_lock(t)
    \/ \E t \in Threads : s_unlock(t, "r")
    \/ \E t \in Threads, h \in SH : s_lock_shared_call(t, h)
    \/ \E t \in Threads : s_lock_shared(t)
    \/ \E t \in Threads : s_iterate(t)
    \/ \E t \in Threads : s_unlock_shared(t)
    \/ \E t \in Threads : thread_exit(t)

SpecRW == InitRW /\ [][NextRW]_vars

\* The mutex of a handle, and the step in which thread t calls try_lock().
HandleMutex(h) == IF h \in UH THEN UMtx(h) ELSE m_mtx[h]
TryStep(t) == pc[t] = "idle" /\ pc'[t] = "idle" /\ nops'[t] = nops[t] + 1

\* C20: try_lock() of either pointer kind never blocks: it can run whatever the
\* state of the mutex; on a free mutex it returns true and the caller alone owns
\* the mutex, on an owned mutex it returns false and no lock changes.
C20_TryLockNeverBlocks ==
    /\ [](\A t \in Threads :
            Ready(t) =>
              /\ \A h \in UH : (mode = "unique" /\ t \notin locked[UMtx(h)])
                                  => ENABLED u_try_lock(t, h)
              /\ \A h \in SH : (mode = "shared" /\ h \in Readable(t)
                                  /\ t \notin locked[m_mtx[h]])
                                  => ENABLED s_try_lock(t, h))
    /\ [][\A t \in Threads :
            TryStep(t) =>
              LET m == HandleMutex(op'[t].dst) IN
                IF locked[m] = {}
                THEN op'[t].val = 1 /\ locked' = [locked EXCEPT ![m] = {t}]
                ELSE op'[t].val = 0 /\ locked' = locked]_vars

\* try_lock() of a shared_ptr just returned false to one thread while the other
\* thread owns the mutex through a try_lock() that returned true.
C20_Witness ==
    \E t \in Threads, u \in Threads :
        /\ t # u
        /\ mode = "shared"
        /\ op[t].kind = "try_lock" /\ op[t].val = 0
        /\ op[u].kind = "try_lock" /\ op[u].val = 1
        /\ op[u].dst \in SH
        /\ op[t].dst \in SH
        /\ m_mtx[op[t].dst] = m_mtx[op[u].dst]
        /\ locked[m_mtx[op[t].dst]] = {u}


\* ------------------------------------------------------------------------ C16
\* The step in which a guard of operator-> or operator* acquires its lock.
GuardLockStep(t) ==
    /\ pc[t] \in {"s_plock", "i_lock"}
    /\ pc'[t] \in {"s_deref", "i_index"}
    /\ op[t].dst \in SH

\* C16: a guard of ts::shared_ptr's operator-> or operator* acquires its mutex
\* in reader (shared) mode if and only if the mutex type is shared-capable and
\* the pointee type is const; in the other three combinations it acquires the
\* mutex in exclusive mode.
C16_LockModeSelection ==
    [][\A t \in Threads :
         GuardLockStep(t) =>
           IF is_shared_lockable /\ is_read_only(op[t].dst)
           THEN /\ rlocked' = [rlocked EXCEPT ![op[t].r] = @ \cup {t}]
                /\ locked' = locked
           ELSE /\ locked' = [locked EXCEPT ![op[t].r] = @ \cup {t}]
                /\ rlocked' = rlocked]_vars

\* Two guards of const aliases hold the std::shared_mutex in reader mode.
C16_Witness ==
    /\ mode = "shared_rw"
    /\ \A t \in Threads :
         /\ pc[t] \in {"s_deref", "i_index"}
         /\ op[t].dst \in ConstHandles
         /\ t \in rlocked[op[t].r]


\* ------------------------------------------------------------------------ C17
\* The sum of the first n elements of the array as it is now.
RECURSIVE SumTo(_)
SumTo(n) == IF n = 0 THEN 0 ELSE SumTo(n - 1) + arr[n - 1]

\* A step that modifies the array.
Modifies == arr' # arr

\* C17: on a std::shared_mutex shared by a mutable handle and its const aliases,
\* several readers may hold the mutex together, no reader holds it while a
\* writer holds it, at most one writer holds it at a time, and a reader that
\* iterates the payload under lock_shared() sees no concurrent modification:
\* the array is not modified while a reader holds its mutex, and what the reader
\* has seen so far is what the array holds.
C17_ReaderWriterExclusion ==
    /\ [](mode = "shared_rw" =>
            \A m \in Mutexes :
              /\ Cardinality(locked[m]) <= 1
              /\ locked[m] # {} => rlocked[m] = {})
    /\ [](mode = "shared_rw" =>
            \A t \in Threads :
              pc[t] = "s_iter" =>
                /\ t \in rlocked[op[t].r]
                /\ op[t].val = SumTo(op[t].idx))
    /\ [][mode = "shared_rw" /\ Modifies =>
            /\ rlocked[m_mtx["r"]] = {}
            /\ Cardinality(locked[m_mtx["r"]]) = 1]_vars

\* Two readers hold the mutex together, one iterating under lock_shared() and
\* one through a guard, after the array has been modified.
C17_Witness ==
    /\ mode = "shared_rw"
    /\ arr # [j \in 0..(ArrLen - 1) |-> 0]
    /\ \E t, u \in Threads :
         /\ t # u
         /\ pc[t] = "s_iter" /\ op[t].idx > 0
         /\ pc[u] \in {"s_deref", "i_index", "i_store"}
         /\ {t, u} \subseteq rlocked[m_mtx["r"]]


\* ------------------------------------------------------------------------ C14
\* The calls a step makes on the instrumented mutex.
Calls == [c \in CallNames |-> hist'.calls[c] - hist.calls[c]]
NoCall == [c \in CallNames |-> 0]
OneCall(c) == [x \in CallNames |-> IF x = c THEN 1 ELSE 0]
\* The acquiring and the releasing call of a guarded access through handle h.
Enter(h) == IF is_read_only(h) THEN "lock_shared" ELSE "lock"
Leave(h) == IF is_read_only(h) THEN "unlock_shared" ELSE "unlock"
\* The step in which a guarded access or a copy construction returns or throws.
Returns(t) ==
    /\ pc[t] \in {"s_deref", "i_index", "i_store", "lg_body"}
    /\ pc'[t] \in {"idle", "thrown"}

\* C14: with the instrumented shared-capable mutex, a guarded access makes no
\* call on the mutex before its guard is built, exactly one lock() (mutable
\* handle) or lock_shared() (const handle) when the guard is built and exactly
\* one matching unlock() or unlock_shared() when the statement ends;
\* copy-constructing the const alias makes exactly one lock() and one unlock()
\* on the source's mutex; no step calls try_lock or try_lock_shared; the guard
\* holds the mutex from its construction to the end of the statement; and a
\* thread that has returned from any of these operations holds no lock.
C14_LockForOneAccess ==
    /\ [](\A t \in Threads :
            pc[t] \in {"s_deref", "i_index", "i_store"} =>
              IF GuardLock(op[t]) = "shared_lock"
              THEN t \in rlocked[op[t].r] ELSE t \in locked[op[t].r])
    /\ [][\A t \in Threads :
            Returns(t) => \A m \in Mutexes : t \notin locked'[m] \cup rlocked'[m]]_vars
    /\ [][mode = "counting" =>
            \A t \in Threads :
              pc'[t] # pc[t] =>
                Calls = CASE pc[t] \in {"s_plock", "i_lock"} -> OneCall(Enter(op[t].dst))
                          [] pc[t] \in {"s_deref", "i_store"} -> OneCall(Leave(op[t].dst))
                          [] pc[t] = "i_index" /\ pc'[t] = "thrown" ->
                               OneCall(Leave(op[t].dst))
                          [] pc[t] = "lg_lock" -> OneCall("lock")
                          [] pc[t] = "lg_body" -> OneCall("unlock")
                          [] OTHER -> NoCall]_vars

\* The test's thread has copy-constructed a const alias, written through the
\* mutable handle and read through the alias, and is idle again.
C14_Witness ==
    /\ mode = "counting"
    /\ pc["t1"] = "idle"
    /\ hist.copied["y1"] = "r"
    /\ hist.calls = [c \in CallNames |->
                       CASE c \in {"lock", "unlock"} -> 2
                         [] c \in {"lock_shared", "unlock_shared"} -> 1
                         [] OTHER -> 0]
    /\ Held("t1") = {}


\* ------------------------------------------------------------------------ C15
\* The test's thread is between two statements.
Quiescent == mode = "counting" /\ pc["t1"] = "idle"

\* C15 (as stated): with the instrumented shared-capable mutex, constructing
\* const aliases of the mutable handle and reading N times through them makes N
\* reader-lock acquisitions and no exclusive acquisition, and W writes through
\* the mutable handle make W exclusive acquisitions.
C15_DowngradeCounts ==
    Quiescent =>
      /\ hist.calls["lock_shared"] = hist.ops["reads"]
      /\ hist.calls["lock"] = hist.ops["writes"]

\* C15 (amended): with the instrumented shared-capable mutex, N reads through
\* const aliases make N reader-lock acquisitions and W writes through the mutable
\* handle make W exclusive acquisitions; the only other acquisitions are one
\* exclusive lock() of the source's mutex for each const alias constructed.
C15_DowngradeCountsWithCopies ==
    Quiescent =>
      /\ hist.calls["lock_shared"] = hist.ops["reads"]
      /\ hist.calls["unlock_shared"] = hist.ops["reads"]
      /\ hist.calls["lock"] = hist.ops["writes"] + hist.ops["copies"]
      /\ hist.calls["unlock"] = hist.ops["writes"] + hist.ops["copies"]

\* The thread has built a const alias itself, then read twice through it and
\* written once through the mutable handle.
C15_Witness ==
    /\ Quiescent
    /\ hist.copied["y1"] = "r"
    /\ hist.ops = [o \in {"reads", "writes", "copies"} |->
                     IF o = "reads" THEN 2 ELSE 1]


\* ------------------------------------------------- tasks inserting into a map
\* The handle of the fixture's container: map_ptr / queue.
ContainerHandle == ArrHandle
\* The i of the task each thread runs.
TaskIndex(t) == IF t = "t1" THEN 0 ELSE 1
insert_pair_thread == MaxOps
\* const auto val = j + (i * insert_pair_thread), j being the inserts made so far.
Key(t) == nops[t] + TaskIndex(t) * insert_pair_thread

\* std::map::emplace(k, v) on the entries m: inserts unless the key is present.
Emplace(m, k, v) ==
    IF k \in DOMAIN m THEN m
    ELSE [x \in DOMAIN m \cup {k} |-> IF x = k THEN v ELSE m[x]]

\* The destructor of the guard at the end of the statement.
GuardEnd(t) ==
    IF op[t].dst \in UH
    THEN /\ locked' = Release(UMtx(op[t].dst), t)
         /\ UNCHANGED <<rlocked, hist>>
    ELSE UnlockAs(GuardLock(op[t]), op[t].r, t)

\* map_ptr->emplace(val, val): the call of operator->.
emplace_call(t) ==
    /\ Ready(t)
    /\ LET h == ContainerHandle IN
         IF h \in UH
         THEN Begin(t, [NoOp EXCEPT !.kind = "emplace", !.dst = h, !.val = Key(t)],
                    "u_get")
         ELSE Begin(t, [NoOp EXCEPT !.kind = "emplace", !.dst = h, !.val = Key(t),
                                    !.r = m_mtx[h], !.ptr = m_data[h]], "s_plock")
    /\ UNCHANGED <<mode, m_value, m_mtx, m_data, live, locked, use_count, deleted,
                   made, arr, hist>>
    /\ UNCHANGED <<rlocked, map, queue, done>>

\* emplace looks the key up in the tree ...
m_find(t) ==
    /\ pc[t] = "member"
    /\ op[t].kind = "emplace"
    /\ pc' = [pc EXCEPT ![t] = "m_insert"]
    /\ op' = [op EXCEPT ![t].snap = map]
    /\ UNCHANGED <<mode, m_value, m_mtx, m_data, live, locked, use_count, deleted,
                   made, arr, nops, hist>>
    /\ UNCHANGED <<rlocked, map, queue, done>>

\* ... and links the new node into the tree it has looked at; the statement ends.
m_insert(t) ==
    /\ pc[t] = "m_insert"
    /\ map' = Emplace(op[t].snap, op[t].val, op[t].val)
    /\ GuardEnd(t)
    /\ Finish(t)
    /\ UNCHANGED <<mode, m_value, m_mtx, m_data, live, use_count, deleted, made,
                   arr, nops>>
    /\ UNCHANGED <<queue, done>>

\* The task returns after its last insert.
task_exit(t) ==
    /\ pc[t] = "idle"
    /\ nops[t] = insert_pair_thread
    /\ pc' = [pc EXCEPT ![t] = "done"]
    /\ UNCHANGED <<mode, m_value, m_mtx, m_data, live, locked, use_count, deleted,
                   made, arr, op, nops, hist>>
    /\ UNCHANGED <<rlocked, map, queue, done>>

\* auto map_ptr = ts::make_unique<std::map<int, int>>() / ts_ptr map_ptr{new ...}.
InitMap == InitArr

StepMap(t) ==
    \/ emplace_call(t)
    \/ u_get(t)
    \/ u_proxy_lock(t)
    \/ u_proxy_deref(t)
    \/ s_proxy_lock(t)
    \/ s_proxy_deref(t)
    \/ m_find(t)
    \/ m_insert(t)
    \/ task_exit(t)

NextMap == \E t \in Threads : StepMap(t)

SpecMap == InitMap /\ [][NextMap]_vars
\* Every task that can take a step eventually takes one.
FairMap == SpecMap /\ \A t \in Threads : WF_vars(StepMap(t))

\* ------------------------------------------------------------------------ C19
\* std::ranges::for_each(arr_threads, &std::thread::join) has returned.
Joined == \A t \in Threads : pc[t] = "done"
\* The entries the test expects: map_ptr->at(i) == i for every i < target_size.
ExpectedMap == [k \in 0..(Cardinality(Threads) * insert_pair_thread - 1) |-> k]

\* C19: under fair scheduling the tasks, each making insert_pair_thread guarded
\* emplace calls on the same handle, all terminate, every insert taking effect
\* exactly once: after the join the map holds exactly one entry for each of the
\* N * insert_pair_thread keys, and every entry holds its inserted value.
C19_InsertsAllLand ==
    /\ <>Joined
    /\ [](Joined => map = ExpectedMap)
    /\ [](\A k \in DOMAIN map : map[k] = k)

\* Both tasks have returned and the map holds the keys of both.
C19_Witness ==
    /\ Joined
    /\ Cardinality(DOMAIN map) = Cardinality(Threads) * insert_pair_thread
    /\ \A t \in Threads : Key(t) - 1 \in DOMAIN map


\* ------------------------------------ a producer and consumers of one queue
\* The producer thread; the threads of Threads run the consumer.
Producer == "p"
Procs == Threads \cup {Producer}
element_count == MaxOps

\* queue->push(i): the call of operator->.
push_call(t) ==
    /\ t = Producer
    /\ Ready(t)
    /\ LET h == ContainerHandle IN
         IF h \in UH
         THEN Begin(t, [NoOp EXCEPT !.kind = "push", !.dst = h, !.val = nops[t]],
                    "u_get")
         ELSE Begin(t, [NoOp EXCEPT !.kind = "push", !.dst = h, !.val = nops[t],
                                    !.r = m_mtx[h], !.ptr = m_data[h]], "s_plock")
    /\ UNCHANGED <<mode, m_value, m_mtx, m_data, live, locked, use_count, deleted,
                   made, arr, hist>>
    /\ UNCHANGED <<rlocked, map, queue, done>>

\* std::queue::push under the guard; the statement ends.
q_push(t) ==
    /\ pc[t] = "member"
    /\ op[t].kind = "push"
    /\ queue' = Append(queue, op[t].val)
    /\ GuardEnd(t)
    /\ Finish(t)
    /\ UNCHANGED <<mode, m_value, m_mtx, m_data, live, use_count, deleted, made,
                   arr, nops>>
    /\ UNCHANGED <<map, done>>

\* done.store(true) after the last push; the producer returns.
p_done(t) ==
    /\ t = Producer
    /\ pc[t] = "idle"
    /\ nops[t] = element_count
    /\ done' = TRUE
    /\ pc' = [pc EXCEPT ![t] = "done"]
    /\ UNCHANGED <<mode, m_value, m_mtx, m_data, live, locked, use_count, deleted,
                   made, arr, op, nops, hist>>
    /\ UNCHANGED <<rlocked, map, queue>>

\* while (!done || !queue->empty()): the load of done and, when it is set, the
\* call of operator-> for queue->empty().
c_top(t) ==
    /\ pc[t] = "c_top"
    /\ LET h == ContainerHandle IN
         IF ~done
         THEN /\ pc' = [pc EXCEPT ![t] = "c_lock"]
              /\ op' = op
         ELSE IF h \in UH
         THEN /\ pc' = [pc EXCEPT ![t] = "u_get"]
              /\ op' = [op EXCEPT ![t] = [NoOp EXCEPT !.kind = "empty", !.dst = h]]
         ELSE /\ pc' = [pc EXCEPT ![t] = "s_plock"]
              /\ op' = [op EXCEPT ![t] = [NoOp EXCEPT !.kind = "empty", !.dst = h,
                                                      !.r = m_mtx[h],
                                                      !.ptr = m_data[h]]]
    /\ UNCHANGED <<mode, m_value, m_mtx, m_data, live, locked, use_count, deleted,
                   made, arr, nops, hist>>
    /\ UNCHANGED <<rlocked, map, queue, done>>

\* queue->empty() under the guard: the loop ends when the queue is empty.
c_empty(t) ==
    /\ pc[t] = "member"
    /\ op[t].kind = "empty"
    /\ GuardEnd(t)
    /\ pc' = [pc EXCEPT ![t] = IF queue = <<>> THEN "done" ELSE "c_lock"]
    /\ op' = [op EXCEPT ![t] = NoOp]
    /\ UNCHANGED <<mode, m_value, m_mtx, m_data, live, use_count, deleted, made,
                   arr, nops>>
    /\ UNCHANGED <<map, queue, done>>

\* std::lock_guard lock{queue}: queue.lock().
c_lock(t) ==
    /\ pc[t] = "c_lock"
    /\ LET h == ContainerHandle
           m == IF h \in UH THEN UMtx(h) ELSE m_mtx[h] IN
         /\ CanLock(m)
         /\ locked' = Acquire(m, t)
         /\ op' = [op EXCEPT ![t] = [NoOp EXCEPT !.kind = "bracket", !.dst = h,
                                                 !.r = m]]
    /\ pc' = [pc EXCEPT ![t] = "c_check"]
    /\ UNCHANGED <<mode, m_value, m_mtx, m_data, live, use_count, deleted, made,
                   arr, nops, hist>>
    /\ UNCHANGED <<rlocked, map, queue, done>>

\* if (queue.get()->empty()) continue; the lock_guard unlocks on continue.
c_check(t) ==
    /\ pc[t] = "c_check"
    /\ IF queue = <<>>
       THEN /\ locked' = Release(op[t].r, t)
            /\ pc' = [pc EXCEPT ![t] = "c_top"]
            /\ op' = [op EXCEPT ![t] = NoOp]
       ELSE /\ locked' = locked
            /\ pc' = [pc EXCEPT ![t] = "c_pop"]
            /\ op' = op
    /\ UNCHANGED <<mode, m_value, m_mtx, m_data, live, use_count, deleted, made,
                   arr, nops, hist>>
    /\ UNCHANGED <<rlocked, map, queue, done>>

\* std::queue::pop on an empty queue is undefined: any queue may result.
PopEmptyOutcomes == {<<>>, <<0>>}
\* queue.get()->pop(); the lock_guard unlocks at the end of the loop body.
c_pop(t) ==
    /\ pc[t] = "c_pop"
    /\ queue' \in IF queue # <<>> THEN {Tail(queue)} ELSE PopEmptyOutcomes
    /\ locked' = Release(op[t].r, t)
    /\ pc' = [pc EXCEPT ![t] = "c_top"]
    /\ op' = [op EXCEPT ![t] = NoOp]
    /\ UNCHANGED <<mode, m_value, m_mtx, m_data, live, use_count, deleted, made,
                   arr, nops, hist>>
    /\ UNCHANGED <<rlocked, map, done>>

\* auto queue = ts::make_unique / ts::make_shared <std::queue<int32_t>>();
\* std::atomic_bool done{false}; the threads are started.
InitQueue ==
    /\ mode \in {"unique", "shared"}
    /\ m_value = [h \in UH |-> IF mode = "unique" /\ h = "a" THEN 1 ELSE Null]
    /\ m_mtx = [h \in SH |-> IF mode = "shared" /\ h = "r" THEN 1 ELSE Null]
    /\ m_data = [h \in SH |-> IF mode = "shared" /\ h = "r" THEN 1 ELSE Null]
    /\ live = [h \in SH |-> mode = "shared" /\ h = "r"]
    /\ use_count = [p \in Payloads |-> IF mode = "shared" /\ p = 1 THEN 1 ELSE 0]
    /\ deleted = [p \in Payloads |-> 0]
    /\ made = {1}
    /\ locked = [m \in Mutexes |-> {}]
    /\ arr = [j \in 0..(ArrLen - 1) |-> 0]
    /\ pc = [t \in Procs |-> IF t = Producer THEN "idle" ELSE "c_top"]
    /\ op = [t \in Procs |-> NoOp]
    /\ nops = [t \in Procs |-> 0]
    /\ hist = NoHist
    /\ InitContainers

\* The steps in which a thread acquires the handle's mutex.
LockStepQueue(t) ==
    \/ u_proxy_lock(t)
    \/ s_proxy_lock(t)
    \/ c_lock(t)

StepQueue(t) ==
    \/ push_call(t)
    \/ u_get(t)
    \/ LockStepQueue(t)
    \/ u_proxy_deref(t)
    \/ s_proxy_deref(t)
    \/ q_push(t)
    \/ p_done(t)
    \/ c_top(t)
    \/ c_empty(t)
    \/ c_check(t)
    \/ c_pop(t)

NextQueue == \E t \in Procs : StepQueue(t)

SpecQueue == InitQueue /\ [][NextQueue]_vars
\* Every thread that can take a step eventually takes one, and a thread that
\* finds the mutex free again and again eventually acquires it.
FairQueue ==
    /\ SpecQueue
    /\ \A t \in Procs : WF_vars(StepQueue(t)) /\ SF_vars(LockStepQueue(t))

\* ------------------------------------------------------------------------ C18
\* The producer and every consumer have returned.
AllReturned == \A t \in Procs : pc[t] = "done"

NoReturnOutcomes == BOOLEAN

\* mutex_ref().try_lock_shared(): succeeds unless a thread owns the mutex in
\* exclusive mode.
TryLockShared(m) == CanLockShared(m)

s_try_lock_shared(t, h) ==
    /\ is_read_only(h) /\ is_shared_lockable
    /\ Ready(t)
    /\ h \in Readable(t)
    /\ m_mtx[h] # Null
    /\ t \notin locked[m_mtx[h]] \cup rlocked[m_mtx[h]]
    /\ rlocked' = IF TryLockShared(m_mtx[h])
                  THEN [rlocked EXCEPT ![m_mtx[h]] = @ \cup {t}] ELSE rlocked
    /\ \E b \in NoReturnOutcomes :
         op' = [op EXCEPT ![t] = [NoOp EXCEPT !.kind = "try_lock_shared", !.dst = h,
                                              !.val = Flag(b)]]
    /\ nops' = [nops EXCEPT ![t] = @ + 1]
    /\ UNCHANGED <<mode, m_value, m_mtx, m_data, live, locked, use_count, deleted,
                   made, arr, pc, hist>>
    /\ UNCHANGED <<map, queue, done>>

\* const_ptr.unlock_shared() by the thread that holds the reader lock.
s_unlock_shared_call(t, h) ==
    /\ is_read_only(h) /\ is_shared_lockable
    /\ pc[t] = "idle"
    /\ h \in Readable(t)
    /\ m_mtx[h] # Null
    /\ t \in rlocked[m_mtx[h]]
    /\ rlocked' = [rlocked EXCEPT ![m_mtx[h]] = @ \ {t}]
    /\ UNCHANGED <<mode, m_value, m_mtx, m_data, live, locked, use_count, deleted,
                   made, arr, pc, op, nops, hist>>
    /\ UNCHANGED <<map, queue, done>>

\* ts::shared_ptr<T, std::shared_mutex> r and a const alias of it in each thread.
InitTryShared ==
    /\ InitRW
    /\ mode = "shared_rw"
    /\ live["y1"] /\ live["y2"]

NextTryShared ==
    \/ \E t \in Threads, h \in ConstHandles : s_try_lock_shared(t, h)
    \/ \E t \in Threads, h \in ConstHandles : s_unlock_shared_call(t, h)
    \/ \E t \in Threads : s_lock_call(t, "r")
    \/ \E t \in Threads : s_lock(t)
    \/ \E t \in Threads : s_unlock(t, "r")
    \/ \E t \in Threads : thread_exit(t)

SpecTryShared == InitTryShared /\ [][NextTryShared]_vars

\* ------------------------------------------------------------------------ C21
\* The step in which try_lock_shared() runs and returns.
TrySharedStep(t) ==
    /\ pc[t] = "idle" /\ pc'[t] = "idle"
    /\ nops'[t] = nops[t] + 1
    /\ op'[t].kind = "try_lock_shared"

\* C21: try_lock_shared() on a const alias with a std::shared_mutex returns true
\* exactly when the call acquired the reader lock, and false exactly when it did
\* not, the lock state then being unchanged.
C21_TryLockSharedFlag ==
    [][\A t \in Threads :
         TrySharedStep(t) =>
           LET m == m_mtx[op'[t].dst] IN
             IF op'[t].val = 1
             THEN /\ t \notin rlocked[m]
                  /\ rlocked' = [rlocked EXCEPT ![m] = @ \cup {t}]
             ELSE rlocked' = rlocked]_vars


\* ------------------------------------ ownership operations of ts::unique_ptr
\* Two ts::unique_ptr handles built from distinct raw pointers; the threads move
\* between them, release and reset them; main destroys them at the end.
NextOwn ==
    \/ \E t \in Threads, h \in UH : u_release(t, h)
    \/ \E t \in Threads, h \in UH, f \in BOOLEAN : u_reset(t, h, f)
    \/ \E t \in Threads : u_guard(t)
    \/ \E t \in Threads : u_release_body(t)
    \/ \E t \in Threads : u_reset_body(t)
    \/ \E t \in Threads, d \in UH : \E s \in UH \ {d} : u_move(t, d, s)
    \/ \E t \in Threads : sl_lock(t)
    \/ \E t \in Threads : sl_try(t)
    \/ \E t \in Threads : u_move_body(t)
    \/ \E t \in Threads : sl_unlock(t)
    \/ \E t \in Threads : thread_exit(t)
    \/ main_exit

SpecOwn == InitU /\ [][NextOwn]_vars


\* ------------------------------------------------------------------------ C22
\* The step in which a move between unique handles transfers the payload.
MoveStep(t) ==
    /\ pc[t] = "body" /\ op[t].kind = "u_move"
    /\ pc'[t] = "sl_unlock"
\* The thread is between the transfer and the release of the two mutexes.
Moved(t) == pc[t] = "sl_unlock" /\ op[t].kind = "u_move"

\* C22: a move between distinct ts::unique_ptr handles transfers the payload
\* while the thread holds the mutexes of both handles; dst then owns src's
\* former payload and src is Empty; dst's former payload, if any, is deleted
\* exactly once and the moved payload is not deleted; the two handles keep their
\* own, distinct mutexes, and both are released when the move returns.
C22_UniqueMove ==
    /\ [][\A t \in Threads :
            MoveStep(t) =>
              LET d == op[t].dst
                  s == op[t].src IN
                /\ UMtx(d) # UMtx(s)
                /\ locked[UMtx(d)] = {t} /\ locked[UMtx(s)] = {t}
                /\ m_value'[d] = m_value[s]
                /\ m_value'[s] = Null
                /\ \A p \in Payloads :
                     deleted'[p] = IF p = m_value[d] THEN deleted[p] + 1
                                   ELSE deleted[p]
                /\ m_value[d] # Null => deleted[m_value[d]] = 0]_vars
    /\ [](\A t \in Threads :
            Moved(t) => /\ locked[UMtx(op[t].dst)] = {t}
                        /\ locked[UMtx(op[t].src)] = {t}
                        /\ m_value[op[t].src] = Null)
    /\ [][\A t \in Threads :
            Moved(t) /\ pc'[t] = "idle" =>
              /\ t \notin locked'[UMtx(op[t].dst)]
              /\ t \notin locked'[UMtx(op[t].src)]]_vars

\* A thread has moved an owned payload into a handle that owned another one,
\* which is now deleted, and still holds both mutexes.
C22_Witness ==
    \E t \in Threads :
      /\ Moved(t)
      /\ m_value[op[t].dst] # Null
      /\ deleted[m_value[op[t].dst]] = 0
      /\ \E p \in Payloads : deleted[p] = 1 /\ p \notin hist.released


\* ------------------------------------------------------------------------ C23
\* The step in which release() takes the pointer out and returns.
ReleaseStep(t) ==
    /\ pc[t] = "u_body" /\ op[t].kind = "u_release"
    /\ pc'[t] = "idle"

\* C23: ts::unique_ptr::release() runs under the handle's own lock, hands the
\* caller the payload the handle owned (nothing if it was Empty), leaves the
\* handle Empty, invokes no deleter, and has released the lock when it returns.
C23_Release ==
    /\ [](\A t \in Threads :
            pc[t] = "u_body" /\ op[t].kind = "u_release" =>
              locked[UMtx(op[t].dst)] = {t})
    /\ [][\A t \in Threads :
            ReleaseStep(t) =>
              LET h == op[t].dst IN
                /\ hist'.released = hist.released \cup ({m_value[h]} \ {Null})
                /\ m_value'[h] = Null
                /\ \A g \in UH \ {h} : m_value'[g] = m_value[g]
                /\ deleted' = deleted
                /\ locked'[UMtx(h)] = {}]_vars

\* release() has returned an owned payload: the handle is Empty, the payload is
\* not deleted and the mutex is free.
C23_Witness ==
    \E h \in UH, p \in Payloads :
      /\ mode = "unique"
      /\ p \in hist.released
      /\ deleted[p] = 0
      /\ m_value[h] = Null
      /\ locked[UMtx(h)] = {}
      /\ \A t \in Threads : pc[t] = "idle"


\* ------------------------------------------------------------------------ C24
\* dummy_object::ms_object_count: the objects constructed and not destroyed.
ms_object_count == Cardinality({p \in made : deleted[p] = 0})
\* The step in which reset() replaces the payload and returns.
ResetBodyStep(t) ==
    /\ pc[t] = "u_body" /\ op[t].kind = "u_reset"
    /\ pc'[t] = "idle"

\* C24: ts::unique_ptr::reset(newptr) runs under the handle's lock; the payload
\* the handle owned, if any, is deleted exactly once, so that the count of live
\* objects drops by one for an Owning handle (to zero for reset() on the only
\* object, back to one after reset(new object)); the handle then owns newptr, or
\* is Empty when newptr is null; its mutex is the same one and is free again.
C24_Reset ==
    /\ [](\A t \in Threads :
            pc[t] = "u_body" /\ op[t].kind = "u_reset" =>
              locked[UMtx(op[t].dst)] = {t})
    /\ [][\A t \in Threads :
            ResetBodyStep(t) =>
              LET h == op[t].dst
                  old == m_value[h] IN
                /\ m_value'[h] = op[t].np
                /\ \A g \in UH \ {h} : m_value'[g] = m_value[g]
                /\ \A p \in Payloads :
                     deleted'[p] = IF p = old THEN 1 ELSE deleted[p]
                /\ old # Null => deleted[old] = 0
                /\ ms_object_count' = ms_object_count - (IF old = Null THEN 0 ELSE 1)
                /\ locked'[UMtx(h)] = {}]_vars

\* reset(new object) on handle a has returned: a owns the new object, its first
\* payload is deleted and its mutex is free.
C24_Witness ==
    /\ mode = "unique"
    /\ \A t \in Threads : pc[t] = "idle"
    /\ m_value["a"] \in made \ {1, 2}
    /\ deleted[1] = 1
    /\ deleted[m_value["a"]] = 0
    /\ locked[UMtx("a")] = {}


\* ------------------------------------------------------------------------ C25
\* The handles that own payload p.
Owners(p) == {h \in UH : m_value[h] = p}

\* C25: whatever moves between distinct handles, resets and releases the
\* threads have run on ts::unique_ptr handles built from distinct raw pointers,
\* every payload is owned by at most one handle, its deleter has run at most
\* once and never while a handle owns it, and once all handles are destroyed
\* every payload that release() did not hand out has been deleted exactly once.
C25_SingleOwner ==
    /\ \A p \in Payloads :
         /\ Cardinality(Owners(p)) <= 1
         /\ deleted[p] <= 1
         /\ Owners(p) # {} => deleted[p] = 0
    /\ mode = "unique_end" =>
         \A p \in made \ hist.released : deleted[p] = 1

\* All handles are destroyed after a move, a reset(new object) and a release():
\* three payloads were made, one was handed out and the others are deleted.
C25_Witness ==
    /\ mode = "unique_end"
    /\ Cardinality(made) = NumPayloads
    /\ Cardinality(hist.released) = 1
    /\ \A p \in made \ hist.released : deleted[p] = 1
    /\ \A p \in hist.released : deleted[p] = 0


\* ------------------------------------------- shared_ptr handles change hands
\* Two threads construct, copy, move, assign, reset and destroy ts::shared_ptr
\* handles; no guarded access and no explicit lock() is made.
NextLife ==
    \/ \E t \in Threads, d \in SH, f \in BOOLEAN : s_new(t, d, f)
    \/ \E t \in Threads, k \in {"s_copy_ctor", "s_move_ctor"}, d \in SH, s \in SH :
          s_ctor(t, k, d, s)
    \/ \E t \in Threads : lg_lock(t)
    \/ \E t \in Threads : s_copy_ctor_body(t)
    \/ \E t \in Threads : s_move_ctor_body(t)
    \/ \E t \in Threads, k \in {"s_copy_assign", "s_move_assign"}, d \in SH, s \in SH :
          s_assign(t, k, d, s)
    \/ \E t \in Threads : s_assign_check(t)
    \/ \E t \in Threads : sl_resolve(t)
    \/ \E t \in Threads : sl_lock(t)
    \/ \E t \in Threads : sl_try_resolve(t)
    \/ \E t \in Threads : sl_try(t)
    \/ \E t \in Threads : s_copy_assign_body(t)
    \/ \E t \in Threads : s_move_assign_body(t)
    \/ \E t \in Threads : sl_unlock(t)
    \/ \E t \in Threads, d \in SH : s_reset(t, d)
    \/ \E t \in Threads : s_reset_lock(t)
    \/ \E t \in Threads : s_reset_body(t)
    \/ \E t \in Threads, d \in SH : s_reset_args(t, d)
    \/ \E t \in Threads : s_reset_args_body(t)
    \/ \E t \in Threads, d \in SH : s_destroy(t, d)
    \/ \E t \in Threads : thread_exit(t)
    \/ main_exit

SpecLife == InitS /\ [][NextLife]_vars

\* The step of thread t in which a move constructor or a move assignment
\* transfers the references.
MoveBody(t) ==
    \/ pc[t] = "lg_body" /\ op[t].kind = "s_move_ctor" /\ pc'[t] = "idle"
    \/ pc[t] = "body" /\ op[t].kind = "s_move_assign" /\ pc'[t] = "sl_unlock"

\* The step of thread t in which reset() runs on the moved-from handle h.
ResetMovedFrom(t, h) ==
    /\ pc[t] = "idle"
    /\ pc'[t] = "idle"
    /\ nops'[t] = nops[t] + 1
    /\ h \in Own(t)
    /\ live[h]
    /\ h \in hist.moved
    /\ op'[t].kind = "s_reset"
    /\ op'[t].dst = h

\* C26: a move constructor, or a move assignment into a distinct handle with a
\* different mutex, runs with the source's mutex held and hands the source's
\* mutex and payload references to the destination; the moved payload keeps
\* its reference count and is not deleted, and the source is left without
\* references. reset() on the moved-from source then leaves it live and Empty
\* with a mutex that no other handle holds and that no thread owns.
C26_SharedMove ==
    [][\A t \in Threads :
         /\ MoveBody(t) =>
              LET d == op[t].dst
                  s == op[t].src
                  p == m_data[s] IN
                /\ d # s
                /\ m_mtx[s] # Null
                /\ op[t].kind = "s_move_assign" => m_mtx[d] # m_mtx[s]
                /\ t \in locked[m_mtx[s]]
                /\ m_mtx'[d] = m_mtx[s]
                /\ m_data'[d] = p
                /\ m_mtx'[s] = Null
                /\ m_data'[s] = Null
                /\ p # Null => /\ use_count'[p] = use_count[p]
                               /\ deleted'[p] = deleted[p]
                               /\ deleted'[p] = 0
         /\ \A h \in SH :
              ResetMovedFrom(t, h) =>
                /\ live'[h]
                /\ m_data'[h] = Null
                /\ m_mtx'[h] # Null
                /\ \A k \in SH \ {h} : m_mtx'[k] # m_mtx'[h]
                /\ locked'[m_mtx'[h]] = {}
                /\ h \notin hist'.moved
                /\ use_count' = use_count
                /\ deleted' = deleted]_vars

\* A thread has moved a payload with several owners into its second handle and
\* then reset the moved-from handle: the payload has its three owners still and
\* the source holds a mutex of its own.
C26_Witness ==
    \E t \in Threads, h \in SH, d \in SH :
        /\ pc[t] = "idle"
        /\ op[t].kind = "s_reset"
        /\ op[t].dst = h
        /\ op[t].tmp = Null
        /\ d \in Own(t) \ {h}
        /\ live[h] /\ live[d]
        /\ m_data[h] = Null
        /\ m_mtx[h] = op[t].newm
        /\ m_mtx[d] = 1
        /\ m_data[d] = 1
        /\ use_count[1] = 3
        /\ deleted[1] = 0
        /\ \A k \in SH \ {h} : m_mtx[k] # m_mtx[h]

\* The step of thread t in which a copy assignment replaces the references.
CopyAssignBody(t) ==
    /\ pc[t] = "body"
    /\ op[t].kind = "s_copy_assign"
    /\ pc'[t] = "sl_unlock"

\* The step in which the copy assignment of thread t returns.
CopyAssignReturns(t) ==
    /\ pc[t] = "sl_unlock"
    /\ op[t].kind = "s_copy_assign"
    /\ pc'[t] = "idle"

\* C27: dst = src between ts::shared_ptr handles with different mutexes replaces
\* dst's references while the thread owns both mutexes: dst gets src's mutex
\* and payload, src keeps its own, src's payload has one owner more, dst's
\* former payload has one owner fewer and is deleted exactly when dst was its
\* last owner, and every other handle, the former aliases of dst among them,
\* keeps its mutex and payload references. Both mutexes are free of the thread
\* when the assignment has returned.
C27_CopyAssign ==
    [][\A t \in Threads :
         /\ CopyAssignBody(t) =>
              LET d == op[t].dst
                  s == op[t].src
                  p == m_data[s]
                  q == m_data[d] IN
                /\ d # s
                /\ m_mtx[d] # Null /\ m_mtx[s] # Null
                /\ m_mtx[d] # m_mtx[s]
                /\ m_mtx[d] = op[t].tmp
                /\ t \in locked[m_mtx[d]]
                /\ t \in locked[m_mtx[s]]
                /\ m_mtx'[d] = m_mtx[s]
                /\ m_data'[d] = p
                /\ p # Null => use_count'[p] = use_count[p] + 1
                /\ q # Null =>
                     /\ q # p
                     /\ use_count'[q] = use_count[q] - 1
                     /\ deleted'[q] = IF use_count[q] = 1 THEN deleted[q] + 1
                                      ELSE deleted[q]
                     /\ deleted'[q] <= 1
                /\ \A r \in Payloads \ {p, q} :
                       use_count'[r] = use_count[r] /\ deleted'[r] = deleted[r]
                /\ \A h \in SH \ {d} :
                       m_mtx'[h] = m_mtx[h] /\ m_data'[h] = m_data[h]
         /\ CopyAssignReturns(t) =>
              /\ t \notin locked'[op[t].tmp]
              /\ t \notin locked'[m_mtx[op[t].src]]
              /\ m_mtx[op[t].dst] = m_mtx[op[t].src]
              /\ m_data[op[t].dst] = m_data[op[t].src]]_vars

\* A thread has assigned a handle from a handle with another mutex and payload
\* and still owns both mutexes; an alias of the destination keeps the old mutex
\* and the old payload, which is not deleted.
C27_Witness ==
    \E t \in Threads, h \in SH :
        /\ pc[t] = "sl_unlock"
        /\ op[t].kind = "s_copy_assign"
        /\ h \notin {op[t].dst, op[t].src}
        /\ live[h]
        /\ m_mtx[h] = op[t].tmp
        /\ m_data[h] # Null
        /\ deleted[m_data[h]] = 0
        /\ m_mtx[op[t].dst] = m_mtx[op[t].src]
        /\ m_mtx[op[t].dst] # op[t].tmp
        /\ m_data[op[t].dst] = m_data[op[t].src]
        /\ m_data[op[t].dst] \notin {Null, m_data[h]}
        /\ use_count[m_data[op[t].dst]] = 2
        /\ t \in locked[op[t].tmp] /\ t \in locked[m_mtx[op[t].src]]

\* C28: reset() and reset(p) on a ts::shared_ptr h that holds a mutex run with
\* the old mutex and a newly allocated mutex owned by the thread; h then holds
\* the new mutex, which no other handle holds, and the payload null (reset())
\* or p (reset(p)); the old payload is deleted exactly when h was its last
\* owner; when the call has returned no thread owns the old or the new mutex.
C28_ResetFreshMutex ==
    [][\A t \in Threads :
         /\ ResetStep(t) =>
              LET h == op[t].dst
                  q == m_data[h] IN
                /\ m_mtx[h] # Null
                /\ m_mtx[h] = op[t].tmp
                /\ op[t].newm \notin {Null, op[t].tmp}
                /\ locked[op[t].tmp] = {t}
                /\ locked[op[t].newm] = {t}
                /\ \A k \in SH : m_mtx[k] # op[t].newm
                /\ m_mtx'[h] = op[t].newm
                /\ \A k \in SH \ {h} : m_mtx'[k] # m_mtx'[h]
                /\ m_data'[h] = op[t].np
                /\ op[t].kind = "s_reset" => m_data'[h] = Null
                /\ op[t].kind = "s_reset_args" =>
                     /\ m_data'[h] \notin {Null, q}
                     /\ use_count[m_data'[h]] = 0
                     /\ use_count'[m_data'[h]] = 1
                     /\ deleted'[m_data'[h]] = 0
                /\ q # Null =>
                     /\ deleted'[q] = IF use_count[q] = 1 THEN deleted[q] + 1
                                      ELSE deleted[q]
                     /\ deleted'[q] <= 1
                /\ \A r \in Payloads \ {q} : deleted'[r] = deleted[r]
         /\ ResetReturns(t) =>
              /\ locked'[op[t].tmp] = {}
              /\ locked'[m_mtx'[op[t].dst]] = {}
              /\ m_mtx'[op[t].dst] # op[t].tmp]_vars

\* reset(p) has run on the last owner of a payload: the payload is deleted, the
\* handle holds p and a mutex that is not the old one and that no other handle
\* holds, and the call is about to return.
C28_Witness ==
    \E t \in Threads, q \in Payloads :
        LET h == op[t].dst IN
          /\ pc[t] = "sl_unlock"
          /\ op[t].kind = "s_reset_args"
          /\ live[h]
          /\ m_mtx[h] \notin {Null, op[t].tmp}
          /\ \A k \in SH \ {h} : m_mtx[k] # m_mtx[h]
          /\ m_data[h] \notin {Null, q}
          /\ use_count[m_data[h]] = 1
          /\ q \in made
          /\ use_count[q] = 0
          /\ deleted[q] = 1
          /\ locked[op[t].tmp] = {t}
          /\ locked[m_mtx[h]] = {t}

\* ------------------------------------------ shared_ptr<const T> from shared_ptr<T>
\* Each thread has a mutable handle (x1, x2) that is the only owner of a payload
\* and the main thread has r; the threads construct const handles (y1, y2) from
\* them by copy or by move, read through the handles and leave their scope.
InitDown ==
    /\ mode \in {"shared_c", "shared_rw"}
    /\ m_mtx = [h \in SH |-> CASE h = "x1" -> 1 [] h = "x2" -> 2 [] h = "r" -> 3
                               [] OTHER -> Null]
    /\ m_data = [h \in SH |-> CASE h = "x1" -> 1 [] h = "x2" -> 2 [] h = "r" -> 3
                                [] OTHER -> Null]
    /\ live = [h \in SH |-> h \in {"x1", "x2", "r"}]
    /\ use_count = [p \in Payloads |-> IF p \in {1, 2, 3} THEN 1 ELSE 0]
    /\ made = {1, 2, 3}
    /\ hist = NoHist
    /\ m_value = [h \in UH |-> Null]
    /\ deleted = [p \in Payloads |-> 0]
    /\ locked = [m \in Mutexes |-> {}]
    /\ arr = [j \in 0..(ArrLen - 1) |-> 0]
    /\ pc = [t \in Threads |-> "idle"]
    /\ op = [t \in Threads |-> NoOp]
    /\ nops = [t \in Threads |-> 0]
    /\ InitContainers

NextDown ==
    \/ \E t \in Threads, k \in {"s_copy_ctor", "s_move_ctor"}, d \in ConstHandles,
          s \in SH \ ConstHandles : s_ctor(t, k, d, s)
    \/ \E t \in Threads : lg_lock(t)
    \/ \E t \in Threads : s_copy_ctor_body(t)
    \/ \E t \in Threads : s_move_ctor_body(t)
    \/ \E t \in Threads, h \in SH : s_arrow(t, h)
    \/ \E t \in Threads : s_proxy_lock(t)
    \/ \E t \in Threads : s_proxy_deref(t)
    \/ \E t \in Threads : thread_exit(t)

SpecDown == InitDown /\ [][NextDown]_vars

\* The step of thread t in which a constructor of shared_ptr<const T> takes the
\* references of a shared_ptr<T>.
DowngradeBody(t) ==
    /\ pc[t] = "lg_body"
    /\ op[t].kind \in {"s_copy_ctor", "s_move_ctor"}
    /\ is_read_only(op[t].dst)
    /\ ~is_read_only(op[t].src)
    /\ pc'[t] = "idle"

\* The handles that reference payload p.
SharedOwners(p) == {h \in SH : live[h] /\ m_data[h] = p}

\* C29: constructing a ts::shared_ptr<const T> from a ts::shared_ptr<T> gives a
\* read-only handle with the mutex and the payload the source had; the copy
\* form leaves the source its references and adds one owner to the payload,
\* the move form leaves the source without references and the count as it was;
\* the payload is deleted once, when the source and the const handle are gone,
\* and not before.
C29_ConstDowngrade ==
    /\ [][\A t \in Threads :
            DowngradeBody(t) =>
              LET d == op[t].dst
                  s == op[t].src
                  p == m_data[s] IN
                /\ d \in ConstHandles
                /\ m_mtx[s] # Null
                /\ t \in locked[m_mtx[s]]
                /\ live'[d]
                /\ m_mtx'[d] = m_mtx[s]
                /\ m_data'[d] = p
                /\ t_proxy_locker_ret(d) = t_read_lock
                /\ deleted' = deleted
                /\ op[t].kind = "s_copy_ctor" =>
                     /\ m_mtx'[s] = m_mtx[s]
                     /\ m_data'[s] = p
                     /\ p # Null => use_count'[p] = use_count[p] + 1
                /\ op[t].kind = "s_move_ctor" =>
                     /\ m_mtx'[s] = Null
                     /\ m_data'[s] = Null
                     /\ use_count' = use_count]_vars
    /\ [](\A p \in made :
            /\ use_count[p] = Cardinality(SharedOwners(p))
            /\ deleted[p] = IF SharedOwners(p) = {} THEN 1 ELSE 0)

\* With a std::shared_mutex, a const handle was move-constructed from the
\* thread's mutable handle: it is the payload's only owner, under the mutex the
\* source had, and the source is left without references.
C29_Witness ==
    /\ mode = "shared_rw"
    /\ pc["t1"] = "idle"
    /\ live["x1"] /\ live["y1"]
    /\ m_mtx["x1"] = Null /\ m_data["x1"] = Null
    /\ m_mtx["y1"] = 1 /\ m_data["y1"] = 1
    /\ use_count[1] = 1
    /\ deleted[1] = 0
    /\ locked[1] = {}

\* ------------------------------------------------ comparing two ts::unique_ptr
\* The comparison operators of two unique_ptr handles; a != b is the rewritten
\* !(a == b).
CmpKinds == {"u_lt", "u_gt", "u_le", "u_ge", "u_eq", "u_ne", "u_cmp3"}

\* std::less<t_common>{}(x, y); a payload's number stands for its address and
\* the null pointer is the lowest.
StdLessOrEqual(x, y) == x <= y
StdLess(x, y) == x < y

\* x <=> y of two pointers: -1 for less, 0 for equal, 1 for greater.
ThreeWay(x, y) == IF x = y THEN 0 ELSE IF x < y THEN -1 ELSE 1

\* operator> is right < left and operator<= is !(right < left): the operands
\* reach operator< in the opposite order.
Swapped(k) == k \in {"u_gt", "u_le"}

\* What the operator returns for the pointers x = left.get(), y = right.get().
CmpResult(k, x, y) ==
    CASE k = "u_lt" -> Flag(StdLess(x, y))
      [] k = "u_gt" -> Flag(StdLess(y, x))
      [] k = "u_le" -> Flag(~StdLess(y, x))
      [] k = "u_ge" -> Flag(~StdLess(x, y))
      [] k = "u_eq" -> Flag(x = y)
      [] k = "u_ne" -> Flag(~(x = y))
      [] OTHER -> ThreeWay(x, y)

\* What the operators return when both operands are one handle: operator< and
\* operator== return from the identity test.
CmpSelf(k) ==
    CASE k \in {"u_lt", "u_gt", "u_ne"} -> 0
      [] OTHER -> 1

\* a < b, a == b, a <=> b, ...: the identity test, then
\* std::scoped_lock lock { left, right } (operator<=> of one handle takes
\* std::lock_guard lock { left }).
u_compare(t, k, a, b) ==
    /\ mode = "unique"
    /\ Ready(t)
    /\ IF a = b /\ k # "u_cmp3"
       THEN /\ nops' = [nops EXCEPT ![t] = @ + 1]
            /\ CmpSelf(k) \in {0, 1}
            /\ UNCHANGED <<pc, op>>
       ELSE IF a = b
       THEN Begin(t, [NoOp EXCEPT !.kind = k, !.dst = a, !.src = b], "u_guard")
       ELSE LET l == IF Swapped(k) THEN b ELSE a
                r == IF Swapped(k) THEN a ELSE b IN
              Begin(t, [NoOp EXCEPT !.kind = k, !.dst = a, !.src = b,
                                    !.l1 = MtxL(UMtx(l)), !.l2 = MtxL(UMtx(r)),
                                    !.r = UMtx(l)], "sl_lock")
    /\ UNCHANGED <<mode, m_value, m_mtx, m_data, live, locked, use_count, deleted,
                   made, arr, hist>>
    /\ UNCHANGED <<rlocked, map, queue, done>>

\* return left.get() <=> right.get() under the lock_guard of the one handle.
u_cmp_self_body(t) ==
    /\ pc[t] = "u_body"
    /\ op[t].kind = "u_cmp3"
    /\ op[t].src = op[t].dst
    /\ ThreeWay(m_value[op[t].dst], m_value[op[t].src]) = 0
    /\ locked' = Release(UMtx(op[t].dst), t)
    /\ Finish(t)
    /\ UNCHANGED <<mode, m_value, m_mtx, m_data, live, use_count, deleted, made,
                   arr, nops, hist>>
    /\ UNCHANGED <<rlocked, map, queue, done>>

\* left.get() and right.get() are read and compared under the scoped_lock.
u_cmp_body(t) ==
    /\ pc[t] = "body"
    /\ op[t].kind \in CmpKinds
    /\ op' = [op EXCEPT ![t].val = CmpResult(op[t].kind, m_value[op[t].dst],
                                             m_value[op[t].src])]
    /\ pc' = [pc EXCEPT ![t] = "cmp_ret"]
    /\ UNCHANGED <<mode, m_value, m_mtx, m_data, live, locked, use_count, deleted,
                   made, arr, nops, hist>>
    /\ UNCHANGED <<rlocked, map, queue, done>>

\* ~scoped_lock() unlocks both handles and the operator returns its result.
u_cmp_return(t) ==
    /\ pc[t] = "cmp_ret"
    /\ locked' = [locked EXCEPT ![UMtx(op[t].dst)] = @ \ {t},
                                ![UMtx(op[t].src)] = @ \ {t}]
    /\ Finish(t)
    /\ UNCHANGED <<mode, m_value, m_mtx, m_data, live, use_count, deleted, made,
                   arr, nops, hist>>
    /\ UNCHANGED <<rlocked, map, queue, done>>

\* Two threads compare a and b while they move, reset and release them.
NextCmp ==
    \/ \E t \in Threads, k \in CmpKinds, a \in UH, b \in UH : u_compare(t, k, a, b)
    \/ \E t \in Threads : u_cmp_self_body(t)
    \/ \E t \in Threads : u_cmp_body(t)
    \/ \E t \in Threads : u_cmp_return(t)
    \/ \E t \in Threads, h \in UH : u_release(t, h)
    \/ \E t \in Threads, h \in UH, f \in BOOLEAN : u_reset(t, h, f)
    \/ \E t \in Threads : u_guard(t)
    \/ \E t \in Threads : u_release_body(t)
    \/ \E t \in Threads : u_reset_body(t)
    \/ \E t \in Threads, d \in UH : \E s \in UH \ {d} : u_move(t, d, s)
    \/ \E t \in Threads : sl_lock(t)
    \/ \E t \in Threads : sl_try(t)
    \/ \E t \in Threads : u_move_body(t)
    \/ \E t \in Threads : sl_unlock(t)
    \/ \E t \in Threads : thread_exit(t)
    \/ main_exit

SpecCmp == InitU /\ [][NextCmp]_vars

\* The same operator applied to the raw pointers x and y.
PtrCmp(k, x, y) ==
    CASE k = "u_lt" -> Flag(x < y)
      [] k = "u_gt" -> Flag(x > y)
      [] k = "u_le" -> Flag(x <= y)
      [] k = "u_ge" -> Flag(x >= y)
      [] k = "u_eq" -> Flag(x = y)
      [] k = "u_ne" -> Flag(x # y)
      [] OTHER -> IF x < y THEN -1 ELSE IF x > y THEN 1 ELSE 0

\* C30: a comparison of two distinct ts::unique_ptr handles a and b reads both
\* pointers while the thread owns both handles' mutexes and nobody else does;
\* no step changes either pointer from then until the operator returns, its
\* result is that of the same operator on a.get() and b.get(), and returning
\* gives both mutexes up.
C30_Compare ==
    /\ [](\A t \in Threads :
            pc[t] = "cmp_ret" =>
              /\ op[t].dst # op[t].src
              /\ locked[UMtx(op[t].dst)] = {t}
              /\ locked[UMtx(op[t].src)] = {t}
              /\ op[t].val = PtrCmp(op[t].kind, m_value[op[t].dst],
                                    m_value[op[t].src]))
    /\ [][\A t \in Threads :
            /\ (pc[t] = "body" /\ op[t].kind \in CmpKinds) \/ pc[t] = "cmp_ret" =>
                 /\ m_value'[op[t].dst] = m_value[op[t].dst]
                 /\ m_value'[op[t].src] = m_value[op[t].src]
            /\ pc[t] = "body" /\ op[t].kind \in CmpKinds /\ pc'[t] = "cmp_ret" =>
                 /\ locked[UMtx(op[t].dst)] = {t}
                 /\ locked[UMtx(op[t].src)] = {t}
            /\ pc[t] = "cmp_ret" /\ pc'[t] = "idle" =>
                 /\ t \notin locked'[UMtx(op[t].dst)]
                 /\ t \notin locked'[UMtx(op[t].src)]]_vars

\* a >= b has found two Empty handles equal while the thread owns both mutexes.
C30_Witness ==
    \E t \in Threads :
        /\ pc[t] = "cmp_ret"
        /\ op[t].kind = "u_ge"
        /\ op[t].dst # op[t].src
        /\ m_value[op[t].dst] = Null
        /\ m_value[op[t].src] = Null
        /\ op[t].val = 1
        /\ locked[UMtx(op[t].dst)] = {t}
        /\ locked[UMtx(op[t].src)] = {t}

\* A comparison of a handle with itself that thread t is evaluating.
SelfCompare(t) == op[t].kind \in CmpKinds /\ op[t].dst = op[t].src

\* C31: a comparison whose operands are one ts::unique_ptr returns from the
\* identity test: it neither waits for the handle's mutex nor owns it.
C31_SelfCompareTakesNoMutex ==
    \A t \in Threads :
        SelfCompare(t) =>
            /\ pc[t] \notin {"u_guard", "u_body"}
            /\ t \notin locked[UMtx(op[t].dst)]

\* --------------------------------------- comparing a ts::unique_ptr and nullptr
\* What a comparison of a handle holding x with nullptr returns; hl tells that
\* the handle is the left operand. operator> and operator<= call operator< with
\* the operands exchanged, operator== is !static_cast<bool>(left), and
\* nullptr == p, nullptr != p and nullptr <=> p are the rewritten p == nullptr
\* and p <=> nullptr.
NullCmpResult(k, hl, x) ==
    LET l == IF hl THEN x ELSE Null
        r == IF hl THEN Null ELSE x IN
      CASE k = "u_lt" -> Flag(StdLess(l, r))
        [] k = "u_gt" -> Flag(StdLess(r, l))
        [] k = "u_le" -> Flag(~StdLess(r, l))
        [] k = "u_ge" -> Flag(~StdLess(l, r))
        [] k = "u_eq" -> Flag(~(x # Null))
        [] k = "u_ne" -> Flag(~~(x # Null))
        [] OTHER -> IF hl THEN ThreeWay(x, Null) ELSE 0 - ThreeWay(x, Null)

\* p < nullptr, nullptr == p, ...: the operator is called; op.idx is the
\* position of the handle among the operands (0 left, 1 right).
u_compare_null(t, k, h, hl) ==
    /\ mode = "unique"
    /\ Ready(t)
    /\ Begin(t, [NoOp EXCEPT !.kind = k, !.dst = h, !.idx = 1 - Flag(hl)],
             "u_guard")
    /\ UNCHANGED <<mode, m_value, m_mtx, m_data, live, locked, use_count, deleted,
                   made, arr, hist>>
    /\ UNCHANGED <<rlocked, map, queue, done>>

\* Under std::lock_guard lock { left } (or right, or the one of operator bool)
\* the pointer is read and compared with nullptr.
n_body(t) ==
    /\ pc[t] = "u_body"
    /\ op[t].kind \in CmpKinds
    /\ op[t].src = NoH
    /\ op' = [op EXCEPT ![t].ptr = m_value[op[t].dst],
                        ![t].val = NullCmpResult(op[t].kind, op[t].idx = 0,
                                                 m_value[op[t].dst])]
    /\ pc' = [pc EXCEPT ![t] = "n_ret"]
    /\ UNCHANGED <<mode, m_value, m_mtx, m_data, live, locked, use_count, deleted,
                   made, arr, nops, hist>>
    /\ UNCHANGED <<rlocked, map, queue, done>>

\* ~lock_guard() unlocks the handle and the operator returns.
n_return(t) ==
    /\ pc[t] = "n_ret"
    /\ locked' = Release(UMtx(op[t].dst), t)
    /\ Finish(t)
    /\ UNCHANGED <<mode, m_value, m_mtx, m_data, live, use_count, deleted, made,
                   arr, nops, hist>>
    /\ UNCHANGED <<rlocked, map, queue, done>>

\* Two threads compare a and b with nullptr while they reset and release them.
NextNull ==
    \/ \E t \in Threads, k \in CmpKinds, h \in UH, hl \in BOOLEAN :
          u_compare_null(t, k, h, hl)
    \/ \E t \in Threads : u_guard(t)
    \/ \E t \in Threads : n_body(t)
    \/ \E t \in Threads : n_return(t)
    \/ \E t \in Threads, h \in UH : u_release(t, h)
    \/ \E t \in Threads, h \in UH, f \in BOOLEAN : u_reset(t, h, f)
    \/ \E t \in Threads : u_release_body(t)
    \/ \E t \in Threads : u_reset_body(t)
    \/ \E t \in Threads : thread_exit(t)
    \/ main_exit

SpecNull == InitU /\ [][NextNull]_vars

\* A comparison with nullptr that thread t is evaluating.
NullCompare(t) == op[t].kind \in CmpKinds /\ op[t].src = NoH

\* The same operator applied to get() and nullptr, in the operands' order.
PtrCmpNull(k, hl, x) == IF hl THEN PtrCmp(k, x, Null) ELSE PtrCmp(k, Null, x)

\* C32: a comparison of a ts::unique_ptr with nullptr, the handle on either
\* side, returns what the same operator gives for get() and a null pointer, so
\* that an Empty handle equals nullptr and an Owning one does not; while it runs
\* the thread acquires the handle's mutex and no other, in one acquisition, and
\* it has given the mutex up when the operator has returned.
C32_CompareNull ==
    /\ [](\A t \in Threads :
            /\ NullCompare(t) => Held(t) \subseteq {UMtx(op[t].dst)}
            /\ pc[t] = "n_ret" =>
                 /\ locked[UMtx(op[t].dst)] = {t}
                 /\ op[t].ptr = m_value[op[t].dst]
                 /\ op[t].val = PtrCmpNull(op[t].kind, op[t].idx = 0, op[t].ptr)
                 /\ op[t].kind = "u_eq" =>
                      (op[t].val = 1 <=> m_value[op[t].dst] = Null))
    /\ [][\A t \in Threads :
            /\ NullCompare(t) /\ locked'[UMtx(op[t].dst)] = locked[UMtx(op[t].dst)] \cup {t}
                 /\ t \notin locked[UMtx(op[t].dst)] =>
                 pc[t] = "u_guard" /\ pc'[t] = "u_body"
            /\ NullCompare(t) /\ pc[t] = "u_body" /\ pc'[t] # pc[t] =>
                 pc'[t] = "n_ret" /\ locked' = locked
            /\ pc[t] = "n_ret" /\ pc'[t] # pc[t] =>
                 /\ pc'[t] = "idle"
                 /\ Held(t)' = {}
                 /\ locked'[UMtx(op[t].dst)] = {}]_vars

\* nullptr > p has been evaluated for an Owning handle, with the handle's mutex
\* still owned: it is false.
C32_Witness ==
    \E t \in Threads :
        /\ pc[t] = "n_ret"
        /\ op[t].kind = "u_gt"
        /\ op[t].idx = 1
        /\ m_value[op[t].dst] # Null
        /\ op[t].val = 0
        /\ locked[UMtx(op[t].dst)] = {t}
        /\ Held(t) = {UMtx(op[t].dst)}

\* ------------------------------------ two threads work on the same two handles
\* Both threads hold references to the ts::shared_ptr handles x1 and x2, which
\* start with a mutex and a payload each, and assign and reset them.
InitShare ==
    /\ mode = "shared"
    /\ m_value = [h \in UH |-> Null]
    /\ m_mtx = [h \in SH |-> CASE h = "x1" -> 1 [] h = "x2" -> 2 [] OTHER -> Null]
    /\ m_data = [h \in SH |-> CASE h = "x1" -> 1 [] h = "x2" -> 2 [] OTHER -> Null]
    /\ live = [h \in SH |-> h \in PlanHandles]
    /\ use_count = [p \in Payloads |-> IF p \in {1, 2} THEN 1 ELSE 0]
    /\ deleted = [p \in Payloads |-> 0]
    /\ made = {1, 2}
    /\ InitCommon

NextShare ==
    \/ \E t \in Threads, k \in {"s_copy_assign", "s_move_assign"} :
         \E d \in PlanHandles, s \in PlanHandles : s_assign_call(t, k, d, s)
    \/ \E t \in Threads : s_assign_check(t)
    \/ \E t \in Threads : sl_resolve(t)
    \/ \E t \in Threads : sl_lock(t)
    \/ \E t \in Threads : sl_try_resolve(t)
    \/ \E t \in Threads : sl_try(t)
    \/ \E t \in Threads : s_copy_assign_body(t)
    \/ \E t \in Threads : s_move_assign_body(t)
    \/ \E t \in Threads : sl_unlock(t)
    \/ \E t \in Threads, d \in PlanHandles : s_reset_call(t, d)
    \/ \E t \in Threads : s_reset_lock(t)
    \/ \E t \in Threads : s_reset_body(t)

SpecShare == InitShare /\ [][NextShare]_vars

\* The threads that take part in the step.
Acting == {t \in Threads : pc'[t] # pc[t] \/ nops'[t] # nops[t]}

\* C33: the mutex or payload reference of a ts::shared_ptr handle that holds a
\* mutex changes only in a step of a thread that owns that mutex, the one the
\* handle references before the step, and is its only owner; so no other thread
\* owns the mutex through the handle or an alias when the change takes effect.
C33_ModifiedUnderOwnMutex ==
    [][\A h \in SH :
          /\ live[h] /\ live'[h]
          /\ m_mtx[h] # Null
          /\ m_mtx'[h] # m_mtx[h] \/ m_data'[h] # m_data[h]
          => \E t \in Acting : locked[m_mtx[h]] = {t}]_vars

\* ------------------------------------------------- shared_ptr::operator bool
\* if (p): operator bool() is called; mutex_ref() dereferences m_mtx.
s_bool(t, h) ==
    /\ mode \in SharedModes
    /\ Ready(t)
    /\ h \in Readable(t)
    /\ IF m_mtx[h] = Null
       THEN Crash(t, NoOp)
       ELSE Begin(t, [NoOp EXCEPT !.kind = "s_bool", !.dst = h, !.r = m_mtx[h]],
                  "b_lock")
    /\ UNCHANGED <<mode, m_value, m_mtx, m_data, live, locked, use_count, deleted,
                   made, arr, hist>>
    /\ UNCHANGED <<rlocked, map, queue, done>>

\* impl::t_read_lock<t_mutex> lock { mutex_ref() }.
s_bool_lock(t) ==
    /\ pc[t] = "b_lock"
    /\ LockAs(t_read_lock, op[t].r, t)
    /\ pc' = [pc EXCEPT ![t] = "b_body"]
    /\ UNCHANGED <<mode, m_value, m_mtx, m_data, live, use_count, deleted, made,
                   arr, op, nops>>
    /\ UNCHANGED <<map, queue, done>>

\* return static_cast<bool>(m_data); the lock unlocks.
s_bool_body(t) ==
    /\ pc[t] = "b_body"
    /\ UnlockAs(t_read_lock, op[t].r, t)
    /\ pc' = [pc EXCEPT ![t] = "idle"]
    /\ op' = [op EXCEPT ![t] = [NoOp EXCEPT !.kind = "s_bool",
                                            !.val = Flag(m_data[op[t].dst] # Null)]]
    /\ UNCHANGED <<mode, m_value, m_mtx, m_data, live, use_count, deleted, made,
                   arr, nops>>
    /\ UNCHANGED <<map, queue, done>>

\* The mutable handles of the fixtures with const aliases.
MutableHandles == SH \ ConstHandles

\* r is built by the main thread; the threads copy it into mutable handles and
\* const aliases, test, read, lock, assign and reset them.
NextBool ==
    \/ \E t \in Threads, h \in SH : s_bool(t, h)
    \/ \E t \in Threads : s_bool_lock(t)
    \/ \E t \in Threads : s_bool_body(t)
    \/ \E t \in Threads, d \in SH : s_ctor(t, "s_copy_ctor", d, "r")
    \/ \E t \in Threads : lg_lock(t)
    \/ \E t \in Threads : s_copy_ctor_body(t)
    \/ \E t \in Threads, h \in SH : s_arrow(t, h)
    \/ \E t \in Threads : s_proxy_lock(t)
    \/ \E t \in Threads : s_proxy_deref(t)
    \/ \E t \in Threads : s_lock_call(t, "r")
    \/ \E t \in Threads : s_lock(t)
    \/ \E t \in Threads : s_unlock(t, "r")
    \/ \E t \in Threads, d \in MutableHandles : s_reset(t, d)
    \/ \E t \in Threads : s_reset_lock(t)
    \/ \E t \in Threads : s_reset_body(t)
    \/ \E t \in Threads, d \in MutableHandles, s \in MutableHandles :
          s_assign(t, "s_copy_assign", d, s)
    \/ \E t \in Threads : s_assign_check(t)
    \/ \E t \in Threads : sl_resolve(t)
    \/ \E t \in Threads : sl_lock(t)
    \/ \E t \in Threads : sl_try_resolve(t)
    \/ \E t \in Threads : sl_try(t)
    \/ \E t \in Threads : s_copy_assign_body(t)
    \/ \E t \in Threads : sl_unlock(t)
    \/ \E t \in Threads : thread_exit(t)

SpecBool == InitRW /\ [][NextBool]_vars

\* The handles through which a call reaches the mutex it locks: the source of a
\* constructor, the operands of an assignment, else the handle itself.
Via(o) ==
    IF o.kind \in {"s_copy_ctor", "s_move_ctor"} THEN {o.src}
    ELSE {o.dst, o.src} \cap SH

\* A step in which thread t becomes a reader of a mutex.
LocksShared(t) == \E m \in Mutexes : t \in rlocked'[m] /\ t \notin rlocked[m]

\* C34 (as stated): every acquisition made through a mutable ts::shared_ptr
\* handle is exclusive: no thread becomes a reader of a mutex in a call on a
\* mutable handle, whatever the mutex type.
C34_MutableLocksExclusive ==
    [][\A t \in Threads :
         LocksShared(t) => \A h \in Via(op'[t]) : is_read_only(h)]_vars

\* C34 (amended): the acquisitions made through a mutable ts::shared_ptr handle
\* by a guarded access, a copy, a reset or an explicit lock() are exclusive; the
\* boolean test is the exception: with a shared-capable mutex it acquires the
\* mutex in reader mode, with a plain mutex in exclusive mode.
C34_MutableLocksExclusiveButBool ==
    [][\A t \in Threads :
         /\ LocksShared(t) =>
              \/ \A h \in Via(op'[t]) : is_read_only(h)
              \/ op'[t].kind = "s_bool" /\ is_shared_lockable
         /\ pc[t] = "b_lock" /\ pc'[t] = "b_body" =>
              IF is_shared_lockable
              THEN t \in rlocked'[op[t].r] /\ locked' = locked
              ELSE t \in locked'[op[t].r] /\ rlocked' = rlocked]_vars

\* if (r) on the mutable handle with a std::shared_mutex: the thread is a reader
\* of the mutex while it tests the payload.
C34_Witness ==
    \E t \in Threads :
        /\ mode = "shared_rw"
        /\ pc[t] = "b_body"
        /\ op[t].dst = "r"
        /\ t \in rlocked[m_mtx["r"]]
        /\ t \notin locked[m_mtx["r"]]

\* --------------------------------------- assignment between copies of a handle
\* x2 is a copy of x1 (one mutex, one payload), or x1 and x2 were built apart;
\* each thread runs one planned assignment.
InitAlias ==
    /\ mode = "shared"
    /\ m_value = [h \in UH |-> Null]
    /\ \E copy \in BOOLEAN :
         /\ m_mtx = [h \in SH |-> CASE h = "x1" -> 1
                                    [] h = "x2" -> IF copy THEN 1 ELSE 2
                                    [] OTHER -> Null]
         /\ m_data = [h \in SH |-> CASE h = "x1" -> 1
                                     [] h = "x2" -> IF copy THEN 1 ELSE 2
                                     [] OTHER -> Null]
         /\ use_count = [p \in Payloads |->
                           CASE p = 1 -> IF copy THEN 2 ELSE 1
                             [] p = 2 -> IF copy THEN 0 ELSE 1
                             [] OTHER -> 0]
         /\ made = IF copy THEN {1} ELSE {1, 2}
    /\ live = [h \in SH |-> h \in PlanHandles]
    /\ deleted = [p \in Payloads |-> 0]
    /\ InitPlan(PlansS)

FairAlias ==
    InitAlias /\ [][NextAssign]_vars /\ \A t \in Threads : WF_vars(StepAssign(t))

\* Thread t has passed the identity test of dst = src and both handles hold one
\* mutex.
AssignsAlias(t) ==
    /\ pc[t] = "sl_lock"
    /\ op[t].kind \in {"s_copy_assign", "s_move_assign"}
    /\ op[t].dst # op[t].src
    /\ m_mtx[op[t].dst] # Null
    /\ m_mtx[op[t].dst] = m_mtx[op[t].src]
    /\ locked[m_mtx[op[t].dst]] = {}

\* C35: dst = src and dst = std::move(src) between two distinct ts::shared_ptr
\* handles that hold the same mutex return.
C35_AliasAssignReturns ==
    \A t \in Threads : AssignsAlias(t) ~> pc[t] = "idle"


\* ------------------------------------------- one payload, one mutex
\* The handles that reference payload p and are not being constructed.
SamePayload(h1, h2) ==
    /\ live[h1]
    /\ live[h2]
    /\ m_data[h1] # Null
    /\ m_data[h1] = m_data[h2]

\* C36: two ts::shared_ptr handles that reference the same non-null payload
\* reference the same mutex, whatever copies, moves, assignments and resets
\* were made, as long as every payload entered through one construction or one
\* reset(p).
C36_SamePayloadSameMutex ==
    \A h1 \in SH : \A h2 \in SH :
       SamePayload(h1, h2) => m_mtx[h1] # Null /\ m_mtx[h1] = m_mtx[h2]

\* A payload that entered through a construction or reset(p) after the start
\* is referenced by two handles, with a mutex other than the first one.
C36_Witness ==
    \E h1 \in SH : \E h2 \in SH \ {h1} :
       /\ SamePayload(h1, h2)
       /\ m_data[h1] # 1
       /\ m_mtx[h1] # 1
       /\ m_mtx[h1] = m_mtx[h2]
       /\ \A t \in Threads : pc[t] = "idle"


\* ------------------------------------------- the lifetime of a locked mutex
LifeKinds == {"s_copy_ctor", "s_move_ctor", "s_copy_assign", "s_move_assign",
              "s_reset", "s_reset_args"}

\* Thread t owns mutex m inside a constructor, an assignment or a reset.
HoldsInOp(t, m) == t \in locked[m] /\ op[t].kind \in LifeKinds

\* C37: a mutex that a copy or move construction, a copy or move assignment,
\* reset() or reset(p) has locked has an owning std::shared_ptr (a handle's
\* m_mtx, tmp_ref_to_mtx or new_mutex) for as long as the operation owns it,
\* up to the unlock.
C37_LockedMutexIsOwned ==
    \A t \in Threads : \A m \in SMutexes : HoldsInOp(t, m) => MtxRefs(m) > 0


\* ------------------------------------------- reset(p) after a move
\* Thread t calls reset(new_pointer) on a handle in this step.
CallsResetArgs(t) ==
    /\ pc[t] = "idle"
    /\ pc'[t] # "idle"
    /\ op'[t].kind = "s_reset_args"

\* C38: reset(new_pointer) runs on every live handle, a moved-from one
\* included: the call locks mutexes that exist (the handle's and the new one)
\* and goes on to install the payload and the new mutex.
C38_ResetArgsLocksExisting ==
    [][\A t \in Threads :
          CallsResetArgs(t) =>
             /\ pc'[t] = "sl_lock"
             /\ Resolve(op'[t].l1) # Null
             /\ Resolve(op'[t].l2) = op'[t].newm
             /\ op'[t].newm # Null]_vars


\* ------------------------------------------- calls inside a lock() bracket
\* get(): return m_value.get(); no lock is taken and the call returns at once.
u_get_call(t, h) ==
    /\ mode = "unique"
    /\ Ready(t)
    /\ m_value[h] \in Payloads \cup {Null}
    /\ nops' = [nops EXCEPT ![t] = @ + 1]
    /\ UNCHANGED <<mode, m_value, m_mtx, m_data, live, locked, use_count, deleted,
                   made, arr, pc, op, hist>>
    /\ UNCHANGED <<rlocked, map, queue, done>>

\* The threads bracket their calls with lock() and unlock(), and also call
\* the locking operations of the handles, inside a bracket or outside
\* (p == nullptr is !static_cast<bool>(p): the route to operator bool).
NextBracket ==
    \/ \E t \in Threads, h \in UH : u_lock_call(t, h)
    \/ \E t \in Threads : u_lock(t)
    \/ \E t \in Threads, h \in UH : u_unlock(t, h)
    \/ \E t \in Threads, h \in UH : u_get_call(t, h)
    \/ \E t \in Threads, h \in UH : u_arrow(t, h)
    \/ \E t \in Threads : u_get(t)
    \/ \E t \in Threads : u_proxy_lock(t)
    \/ \E t \in Threads : u_proxy_deref(t)
    \/ \E t \in Threads, h \in UH : u_release(t, h)
    \/ \E t \in Threads, h \in UH : u_reset(t, h, FALSE)
    \/ \E t \in Threads : u_guard(t)
    \/ \E t \in Threads : u_release_body(t)
    \/ \E t \in Threads : u_reset_body(t)
    \/ \E t \in Threads, k \in CmpKinds, a \in UH, b \in UH : u_compare(t, k, a, b)
    \/ \E t \in Threads : u_cmp_self_body(t)
    \/ \E t \in Threads : u_cmp_body(t)
    \/ \E t \in Threads : u_cmp_return(t)
    \/ \E t \in Threads : sl_lock(t)
    \/ \E t \in Threads : sl_try(t)
    \/ \E t \in Threads, h \in UH : u_compare_null(t, "u_eq", h, TRUE)
    \/ \E t \in Threads : n_body(t)
    \/ \E t \in Threads : n_return(t)
    \/ \E t \in Threads, h \in SH : s_lock_call(t, h)
    \/ \E t \in Threads : s_lock(t)
    \/ \E t \in Threads, h \in SH : s_unlock(t, h)
    \/ \E t \in Threads, d \in SH, s \in SH : s_ctor(t, "s_copy_ctor", d, s)
    \/ \E t \in Threads : lg_lock(t)
    \/ \E t \in Threads : s_copy_ctor_body(t)
    \/ \E t \in Threads, h \in SH : s_arrow(t, h)
    \/ \E t \in Threads : s_proxy_lock(t)
    \/ \E t \in Threads : s_proxy_deref(t)
    \/ \E t \in Threads, h \in SH : s_bool(t, h)
    \/ \E t \in Threads : s_bool_lock(t)
    \/ \E t \in Threads : s_bool_body(t)
    \/ \E t \in Threads, d \in SH : s_reset(t, d)
    \/ \E t \in Threads : s_reset_lock(t)
    \/ \E t \in Threads : s_reset_body(t)
    \/ \E t \in Threads : thread_exit(t)

SpecBracket == Init /\ [][NextBracket]_vars


\* The positions of a locking operation before the statements its locks guard.
PreBodyPcs == {"u_get", "u_plock", "u_guard", "u_lock", "sl_lock", "sl_try",
               "lg_lock", "s_plock", "b_lock", "rs_lock", "s_lock"}

\* The mutexes operation o locks on behalf of its operands.
Targets(o) ==
    IF mode = "unique"
    THEN {UMtx(h) : h \in {o.dst, o.src} \cap UH}
    ELSE {o.r, o.tmp} \ {Null}

\* What std::lock holds of its two lockables while it tries the second.
AcqInOp(t) ==
    IF pc[t] = "sl_try" THEN {Resolve(Lk(op[t], op[t].first))} ELSE {}

\* Thread t is in a locking operation on a mutex that it owned already when
\* it made the call.
ReEntered(t) ==
    /\ pc[t] \in PreBodyPcs
    /\ \E m \in Targets(op[t]) : t \in locked[m] /\ m \notin AcqInOp(t)

\* Thread t calls a locking operation on a mutex that it owns.
ReCall(t) ==
    /\ pc[t] = "idle"
    /\ pc'[t] \notin {"idle", "crashed"}
    /\ \E m \in Targets(op'[t]) : t \in locked[m]

====
